---- MODULE Spec2Model ----
(***************************************************************************)
(* Factory-to-kiosk point of sale: the hosted store's tables, its          *)
(* row-level policies, and the client handlers that write to them.         *)
(* The handlers are translated from the React components, the policies     *)
(* from the SQL migrations.                                                *)
(***************************************************************************)
EXTENDS Integers, Sequences, FiniteSets, TLC

\* ---------------------------------------------------------------- bounds
MaxSaleAttempts == 2  \* orders placed while the backend may fail
MaxChannels == 2      \* channels a view opens anew
MaxQty == 2          \* largest quantity of one cart line
MaxApiWrites == 2    \* requests that change a table, in the policy specification
MaxWrites == 3       \* handlers that write to the store, over all clients;
                     \* a cart line is added and an edit dialog opened only
                     \* while a write can still follow
MaxStatusChanges == 2  \* status changes of purchase orders beyond MaxWrites
MaxNow == 3          \* the last tick of the wall clock
MaxLogs == 2         \* rows ever inserted into clock_logs
MaxResets == 1       \* resets of the day's data, in the attendance specifications
MaxStreams == 1      \* camera streams pending or leaked at one time

\* ---------------------------------------------------------------- inputs
Users == {"m", "k1", "k2"}
Anon == "anon"
Roles == {"manager", "kiosk"}
NoProfile == "none"
NoItem == ""
NoType == "none"
NoTime == -1
NoPhoto == [kiosk_id |-> "", type |-> NoType, timestamp |-> NoTime]
ClockTypes == {"in", "out"}
Pages == {"/auth", "/manager-dashboard", "/kiosk-dashboard"}
SignedOut == [page |-> "/auth", checking |-> FALSE, session |-> FALSE]
Lookups == {"ok", "error"}
Writers == {"w1", "w2"}
Views == {"KioskSales", "LiveInventory", "KioskDashboard"}
Idle == [kind |-> "none", qty |-> 0, read |-> 0, pc |-> "idle"]
SendQuantities == {-5, 0, 11}
EditQuantities == {-5}
WastageQuantities == {3, 15}
FactoryEdits == {[name |-> "Pani Puri", price |-> 45], [name |-> "Gulab Jamun", price |-> 120]}
Tables == {"kiosk_inventory", "orders", "purchase_orders", "clock_logs", "wastage", "reports"}
Commands == {"SELECT", "INSERT", "UPDATE", "DELETE"}
DirectWastageOrder == 0
CartWastageQuantities == {1}
FiniteSendQuantities == {-5, 5, 12}
FiniteEdits == {[name |-> "Pani Puri", stock |-> 3, price |-> 40],
                [name |-> "Gulab Jamun", stock |-> -5, price |-> 120]}
Statuses == {"Preparing", "Out for Delivery", "Delivered", "Rejected"}

VARIABLES
  profiles,          \* profiles table: account id -> role, or NoProfile
  pending,           \* sign-ups between the manager check and the profile insert
  factory_inventory, \* factory_inventory table: entry id -> [name, price, stock]
  kiosk_inventory,   \* kiosk_inventory table: set of rows
  orders,            \* orders table: set of rows
  purchase_orders,   \* purchase_orders table: set of rows
  wastage,           \* wastage table: set of rows
  clock_logs,        \* clock_logs table: set of rows
  reports,           \* reports table: set of rows
  nextId,            \* per table, the id the next inserted row gets
  items,             \* KioskSales.items, per kiosk: the last fetched item list
  currentOrder,      \* KioskSales.currentOrder, per kiosk: the cart
  selectedOrder,     \* PurchaseOrders.selectedOrder: [id, kiosk_id], id 0 when none
  editItems,         \* PurchaseOrders.editItems
  writes,            \* number of store-writing handlers that have run
  last,              \* the last handler that addressed the store: inputs and outcome
  response,          \* the rows the last direct API request returned
  now,               \* the wall clock, in ticks
  photos,            \* the clockin-photos bucket: the file names stored
  mounted,           \* whether the ClockInOut component is mounted
  cameraOpen,        \* ClockInOut.cameraOpen: "in", "out" or NoType for null
  capturedImage,     \* ClockInOut.capturedImage: its timestamp, NoTime for null
  streamRef,         \* whether ClockInOut.streamRef.current holds a stream
  acquiring,         \* the types of the openCamera calls awaiting getUserMedia
  leaked,            \* live streams that no mounted streamRef refers to
  view,              \* per account, the page its browser shows and whether
                     \* that page's checkAuth is still to run
  writers,           \* per writer of the race specification, its operation,
                     \* the stock it has read and how far it has come
  delivered,         \* change notifications delivered to the kiosk's item view
  inflight,          \* the responses of that view's fetches still on their way
  instances,         \* per view, its mounted instances
  channels           \* per view, the change-feed channels it has live

vars == <<profiles, pending, factory_inventory, kiosk_inventory, orders,
          purchase_orders, wastage, clock_logs, reports, nextId, items,
          currentOrder, selectedOrder, editItems, writes, last, response,
          now, photos, mounted, cameraOpen, capturedImage, streamRef, acquiring, leaked,
          view, writers, delivered, inflight, instances, channels>>

\* the clock, the state of the attendance component, the pages shown, the
\* writers in flight and the change feed
uiVars == <<now, photos, mounted, cameraOpen, capturedImage, streamRef, acquiring, leaked,
            view, writers, delivered, inflight, instances, channels>>

\* ------------------------------------------------------------ helpers
Max(a, b) == IF a >= b THEN a ELSE b

RECURSIVE SumSeq(_)
SumSeq(s) == IF s = <<>> THEN 0 ELSE Head(s) + SumSeq(Tail(s))

RECURSIVE SetToSeq(_)
\* a set of rows as the sequence the store returns for .order(...): by id
\* within one name, names in the order of ItemRank
ItemRank(n) ==
  IF n = "Gulab Jamun" THEN 1 ELSE IF n = "Pani Puri" THEN 2
  ELSE IF n = "PANI PURI" THEN 3 ELSE 0
RowBefore(a, b) == \/ ItemRank(a.item_name) < ItemRank(b.item_name)
                   \/ ItemRank(a.item_name) = ItemRank(b.item_name) /\ a.id < b.id
SetToSeq(S) ==
  IF S = {} THEN <<>>
  ELSE LET first == CHOOSE r \in S : \A o \in S \ {r} : RowBefore(r, o)
       IN <<first>> \o SetToSeq(S \ {first})

Last(op, kiosk, item, qty, ok) ==
  [op |-> op, kiosk |-> kiosk, item |-> item, qty |-> qty, ok |-> ok]

\* ------------------------------------------------------- status labels
\* KioskSales / ItemWastageModal: three-way label
SaleStatus(newStock) ==
  IF newStock = 0 THEN "Out of Stock"
  ELSE IF newStock < 10 THEN "Low Stock" ELSE "In Stock"

\* FactoryInventory.handleSendItem: two-way label
SendStatus(newStock) == IF newStock < 10 THEN "Low Stock" ELSE "In Stock"

\* --------------------------------------------------- row-level policies
\* get_user_role(auth.uid()): NULL for the anonymous caller or a missing row
get_user_role(uid) == IF uid \in Users THEN profiles[uid] ELSE NoProfile

IsManager(uid) == get_user_role(uid) = "manager"

\* the CREATE POLICY statements in force after all migrations; cmd "ALL"
\* covers the four commands; "own" is kiosk_id = auth.uid(), "manager" is
\* get_user_role(auth.uid()) = 'manager'
Policies == {
  [table |-> "kiosk_inventory", cmd |-> "SELECT", who |-> "own"],
  [table |-> "kiosk_inventory", cmd |-> "UPDATE", who |-> "own"],
  [table |-> "kiosk_inventory", cmd |-> "SELECT", who |-> "manager"],
  [table |-> "kiosk_inventory", cmd |-> "ALL", who |-> "manager"],
  [table |-> "orders", cmd |-> "SELECT", who |-> "own"],
  [table |-> "orders", cmd |-> "INSERT", who |-> "own"],
  [table |-> "orders", cmd |-> "SELECT", who |-> "manager"],
  [table |-> "orders", cmd |-> "DELETE", who |-> "manager"],
  [table |-> "purchase_orders", cmd |-> "SELECT", who |-> "own"],
  [table |-> "purchase_orders", cmd |-> "INSERT", who |-> "own"],
  [table |-> "purchase_orders", cmd |-> "SELECT", who |-> "manager"],
  [table |-> "purchase_orders", cmd |-> "UPDATE", who |-> "manager"],
  [table |-> "reports", cmd |-> "SELECT", who |-> "own"],
  [table |-> "reports", cmd |-> "ALL", who |-> "own"],
  [table |-> "reports", cmd |-> "SELECT", who |-> "manager"],
  [table |-> "reports", cmd |-> "DELETE", who |-> "manager"],
  [table |-> "clock_logs", cmd |-> "SELECT", who |-> "own"],
  [table |-> "clock_logs", cmd |-> "INSERT", who |-> "own"],
  [table |-> "clock_logs", cmd |-> "SELECT", who |-> "manager"],
  [table |-> "clock_logs", cmd |-> "DELETE", who |-> "manager"],
  [table |-> "wastage", cmd |-> "SELECT", who |-> "own"],
  [table |-> "wastage", cmd |-> "INSERT", who |-> "own"],
  [table |-> "wastage", cmd |-> "SELECT", who |-> "manager"],
  [table |-> "wastage", cmd |-> "DELETE", who |-> "manager"] }

PolicyHoldsAnyAccount(who, uid, kiosk_id) == uid \in Users
\* the USING / WITH CHECK expression of one policy on a row of kiosk kiosk_id
PolicyHolds(who, uid, kiosk_id) ==
  IF who = "own" THEN uid \in Users /\ kiosk_id = uid ELSE IsManager(uid)

\* the SELECT policies on profiles: "Users can view their own profile" and
\* "Managers can view all profiles"
ProfileVisible(uid, id) == (uid \in Users /\ uid = id) \/ IsManager(uid)

\* "Users can update their own profile": FOR UPDATE USING (auth.uid() = id),
\* with no column restriction and no WITH CHECK of its own
ProfileUpdatePolicy(uid, id) == uid \in Users /\ uid = id

\* the profile row a sign-up writes is its own account's
ProfileInsertPolicy(uid, id) == uid \in Users /\ uid = id

\* "Only managers can modify factory inventory", FOR ALL
FactoryWriteAllowed(uid) == IsManager(uid)

\* permissive policies are OR-ed; no policy for a command denies it
Allowed(table, cmd, uid, kiosk_id) ==
  \E p \in Policies :
     /\ p.table = table
     /\ p.cmd \in {cmd, "ALL"}
     /\ PolicyHolds(p.who, uid, kiosk_id)

\* ------------------------------------------------------------ the store
\* the BEFORE UPDATE trigger on kiosk_inventory: NEW.updated_at = NOW(); the
\* timestamp is kept as the number of updates the row has had
update_updated_at_column(row) == [row EXCEPT !.updated_at = @ + 1]

Kiosks == {u \in Users : profiles[u] = "kiosk"}

\* .eq("kiosk_id", k).eq("item_name", name): the match is case-sensitive
MatchingRows(k, name) == {r \in kiosk_inventory : r.kiosk_id = k /\ r.item_name = name}

\* .maybeSingle(): the row when exactly one matches, otherwise no data
\* (several matches are an error whose data is null); <<>> stands for null
maybeSingle(S) == IF Cardinality(S) = 1 THEN <<CHOOSE r \in S : TRUE>> ELSE <<>>

\* a day has three ticks: 00:00:00.000, a time of day before 23:59:59.000,
\* and 23:59:59.500
TicksPerDay == 3
Day(t) == t \div TicksPerDay
\* `${day}T00:00:00`
DayStart(d) == d * TicksPerDay
\* `${day}T23:59:59`: the last tick not after it
DayLastSecond(d) == d * TicksPerDay + TicksPerDay - 2

\* ----------------------------------------------------------- KioskSales
\* the slice of the 23-entry PREDEFINED_ITEMS list that the model's item
\* names meet
PREDEFINED_ITEMS == <<[name |-> "Pani Puri", price |-> 40]>>

toLowerCaseOmitted(n) == n
\* String.prototype.toLowerCase on the model's item names
toLowerCase(n) ==
  IF n \in {"Pani Puri", "PANI PURI"} THEN "pani puri"
  ELSE IF n = "Gulab Jamun" THEN "gulab jamun" ELSE n

\* a placeholder row's id `placeholder-<name>` is the negated index of the
\* predefined item; store ids are positive
IsPlaceholder(id) == id < 0

Placeholder(i, k) ==
  [id |-> -i, kiosk_id |-> k, item_name |-> PREDEFINED_ITEMS[i].name, stock |-> 0,
   price |-> PREDEFINED_ITEMS[i].price, status |-> "Out of Stock", updated_at |-> 0]

\* the list fetchItems builds from the rows the caller may read
fetchItems(k, rows) ==
  LET visible == {r \in rows : r.kiosk_id = k /\ Allowed("kiosk_inventory", "SELECT", k, r.kiosk_id)}
      dbInventory == SetToSeq(visible)
      find(name) == {i \in 1..Len(dbInventory) :
                       toLowerCase(dbInventory[i].item_name) = toLowerCase(name)}
      merged == [i \in 1..Len(PREDEFINED_ITEMS) |->
                   IF find(PREDEFINED_ITEMS[i].name) # {}
                   THEN dbInventory[CHOOSE j \in find(PREDEFINED_ITEMS[i].name) :
                                      \A j2 \in find(PREDEFINED_ITEMS[i].name) : j <= j2]
                   ELSE Placeholder(i, k)]
      extra == SelectSeq(dbInventory,
                 LAMBDA r : \A i \in 1..Len(PREDEFINED_ITEMS) :
                    toLowerCase(PREDEFINED_ITEMS[i].name) # toLowerCase(r.item_name))
  IN merged \o extra

\* a cart line is the list item spread, plus quantity; stored_at_add is not
\* client state: it records the stored row's updated_at at the first add
CartLine(item, q) ==
  [id |-> item.id, kiosk_id |-> item.kiosk_id, item_name |-> item.item_name,
   stock |-> item.stock, price |-> item.price, status |-> item.status,
   updated_at |-> item.updated_at, quantity |-> q,
   stored_at_add |-> IF \E r \in kiosk_inventory : r.id = item.id
                     THEN (CHOOSE r \in kiosk_inventory : r.id = item.id).updated_at
                     ELSE 0]

CartIndex(cart, id) == {i \in 1..Len(cart) : cart[i].id = id}

\* the realtime callback of setupRealtimeSubscription: an unconditional refetch
RefreshItems(k) ==
  /\ k \in Kiosks
  /\ items' = [items EXCEPT ![k] = fetchItems(k, kiosk_inventory)]
  /\ items'[k] # items[k]
  /\ UNCHANGED <<uiVars, response, profiles, pending, factory_inventory, kiosk_inventory, orders,
                 purchase_orders, wastage, clock_logs, reports, nextId,
                 currentOrder, selectedOrder, editItems, writes, last>>

\* addToOrder(item): item is a row of the item list (Add button) or a line
\* of the cart (the cart's plus button)
addToOrder(k, item) ==
  /\ k \in Kiosks
  /\ writes < MaxWrites
  /\ ~IsPlaceholder(item.id)
  /\ item.stock # 0
  /\ LET idx == CartIndex(currentOrder[k], item.id)
     IN IF idx # {}
        THEN LET i == CHOOSE j \in idx : TRUE
             IN /\ ~(currentOrder[k][i].quantity >= item.stock)
                /\ currentOrder[k][i].quantity + 1 <= MaxQty
                /\ currentOrder' = [currentOrder EXCEPT ![k][i].quantity = @ + 1]
        ELSE currentOrder' = [currentOrder EXCEPT ![k] = Append(@, CartLine(item, 1))]
  /\ UNCHANGED <<uiVars, response, profiles, pending, factory_inventory, kiosk_inventory, orders,
                 purchase_orders, wastage, clock_logs, reports, nextId, items,
                 selectedOrder, editItems, writes, last>>

AddFromList(k) == \E i \in 1..Len(items[k]) : addToOrder(k, items[k][i])

AddFromCart(k) == \E i \in 1..Len(currentOrder[k]) : addToOrder(k, currentOrder[k][i])

\* removeFromOrder(itemId)
removeFromOrder(k, itemId) ==
  /\ k \in Kiosks
  /\ CartIndex(currentOrder[k], itemId) # {}
  /\ LET i == CHOOSE j \in CartIndex(currentOrder[k], itemId) : TRUE
     IN IF currentOrder[k][i].quantity > 1
        THEN currentOrder' = [currentOrder EXCEPT ![k][i].quantity = @ - 1]
        ELSE currentOrder' = [currentOrder EXCEPT ![k] =
                                SelectSeq(@, LAMBDA l : l.id # itemId)]
  /\ UNCHANGED <<uiVars, response, profiles, pending, factory_inventory, kiosk_inventory, orders,
                 purchase_orders, wastage, clock_logs, reports, nextId, items,
                 selectedOrder, editItems, writes, last>>

\* getTotalPrice(): reduce over the cart of Number(price) * quantity
getTotalPrice(cart) == SumSeq([i \in 1..Len(cart) |-> cart[i].price * cart[i].quantity])

\* the line items frozen into the order row
orderItems(cart) ==
  [i \in 1..Len(cart) |->
     [id |-> cart[i].id, name |-> cart[i].item_name,
      quantity |-> cart[i].quantity, price |-> cart[i].price]]

SaleNewStockIgnoresQuantity(line) == line.stock - 1
\* newStock = item.stock - item.quantity, from the cart line's own snapshot
SaleNewStock(line) == line.stock - line.quantity

\* the level below which a sale raises a purchase order
ReorderLevel == 10
\* the target ceiling of a replenishment request
TargetStock == 50

\* the rows after the parallel stock updates .update({stock, status}).eq("id", item.id)
SaleStockUpdates(k, cart, rows) ==
  {IF \E i \in 1..Len(cart) : cart[i].id = r.id /\ Allowed("kiosk_inventory", "UPDATE", k, r.kiosk_id)
   THEN LET i == CHOOSE j \in 1..Len(cart) : cart[j].id = r.id
        IN update_updated_at_column(
             [r EXCEPT !.stock = SaleNewStock(cart[i]),
                       !.status = SaleStatus(SaleNewStock(cart[i]))])
   ELSE r : r \in rows}

LowLinesInclusive(cart) == SelectSeq(cart, LAMBDA l : SaleNewStock(l) <= ReorderLevel)
\* the cart lines whose newStock is below the reorder level, in cart order
LowLines(cart) == SelectSeq(cart, LAMBDA l : SaleNewStock(l) < ReorderLevel)

\* the purchase orders inserted for the low lines
SalePurchaseOrders(k, cart, firstId) ==
  {[id |-> firstId + i - 1, kiosk_id |-> k,
    items |-> <<[name |-> LowLines(cart)[i].item_name,
                 quantity |-> TargetStock - SaleNewStock(LowLines(cart)[i])]>>,
    status |-> "Preparing"] : i \in 1..Len(LowLines(cart))}

\* the cart lines whose stock snapshot is the row's stored stock and covers
\* the quantity (recorded in last.qty by a sale)
FreshLines(k, cart) ==
  {i \in 1..Len(cart) : \E r \in kiosk_inventory :
      r.id = cart[i].id /\ r.stock = cart[i].stock /\ r.stock >= cart[i].quantity}

\* handlePlaceOrder, with the trailing setCurrentOrder([]) and fetchItems()
handlePlaceOrder(k) ==
  /\ k \in Kiosks
  /\ currentOrder[k] # <<>>
  /\ writes < MaxWrites
  /\ writes' = writes + 1
  /\ Allowed("orders", "INSERT", k, k)
  /\ Allowed("purchase_orders", "INSERT", k, k)
  /\ orders' = orders \cup {[id |-> nextId.orders, kiosk_id |-> k,
                             items |-> orderItems(currentOrder[k]),
                             total |-> getTotalPrice(currentOrder[k])]}
  /\ kiosk_inventory' = SaleStockUpdates(k, currentOrder[k], kiosk_inventory)
  /\ purchase_orders' = purchase_orders \cup
         SalePurchaseOrders(k, currentOrder[k], nextId.purchase_orders)
  /\ nextId' = [nextId EXCEPT !.orders = @ + 1,
                              !.purchase_orders = @ + Len(LowLines(currentOrder[k]))]
  /\ currentOrder' = [currentOrder EXCEPT ![k] = <<>>]
  /\ items' = [items EXCEPT ![k] = fetchItems(k, kiosk_inventory')]
  /\ last' = Last("sale", k, NoItem, Cardinality(FreshLines(k, currentOrder[k])), TRUE)
  /\ UNCHANGED <<uiVars, response, profiles, pending, factory_inventory, wastage, clock_logs, reports,
                 selectedOrder, editItems>>

\* ----------------------------------------------- manager: FactoryInventory
FactoryIds == {1, 2}

\* the stock handleAddItem gives every entry under the unlimited policy
UnlimitedStock == 999999

Managers == {u \in Users : profiles[u] = "manager"}

\* fetchKiosks: the profile rows with role kiosk that the caller may read
fetchKiosks(uid) == {u \in Users : profiles[u] = "kiosk" /\ ProfileVisible(uid, u)}

handleUpdateItemRewritingOrders(mgr, e, name, price) ==
  /\ writes < MaxWrites
  /\ writes' = writes + 1
  /\ mgr \in Managers
  /\ factory_inventory' = [factory_inventory EXCEPT ![e].name = name, ![e].price = price]
  /\ factory_inventory' # factory_inventory
  /\ orders' = {[o EXCEPT !.items = [i \in 1..Len(o.items) |->
                      IF o.items[i].name = factory_inventory[e].name
                      THEN [o.items[i] EXCEPT !.name = name, !.price = price]
                      ELSE o.items[i]]] : o \in orders}
  /\ last' = Last("factory_edit", mgr, NoItem, 0, TRUE)
  /\ UNCHANGED <<uiVars, response, profiles, pending, kiosk_inventory, purchase_orders, wastage,
                 clock_logs, reports, nextId, items, currentOrder, selectedOrder,
                 editItems>>
\* handleUpdateItem: name and price of a factory entry; no kiosk row's
\* name, price or stock is touched
handleUpdateItem(mgr, e, name, price) ==
  /\ writes < MaxWrites
  /\ writes' = writes + 1
  /\ mgr \in Managers
  /\ FactoryWriteAllowed(mgr)
  /\ factory_inventory' = [factory_inventory EXCEPT ![e].name = name, ![e].price = price]
  /\ factory_inventory' # factory_inventory
  /\ last' = Last("factory_edit", mgr, NoItem, 0, TRUE)
  /\ UNCHANGED <<uiVars, response, profiles, pending, kiosk_inventory, orders, purchase_orders, wastage,
                 clock_logs, reports, nextId, items, currentOrder, selectedOrder,
                 editItems>>

\* the kiosk half of handleSendItem: read the row by kiosk and name, then
\* increment it or insert a new one
SendUpsert(rows, nid, k, name, price, quantity) ==
  LET existingItem == maybeSingle({r \in rows : r.kiosk_id = k /\ r.item_name = name})
  IN IF existingItem # <<>>
     THEN [rows |-> {IF r.id = existingItem[1].id
                     THEN update_updated_at_column(
                            [r EXCEPT !.stock = existingItem[1].stock + quantity,
                                      !.status = SendStatus(existingItem[1].stock + quantity)])
                     ELSE r : r \in rows},
           nid |-> nid]
     ELSE [rows |-> rows \cup {[id |-> nid, kiosk_id |-> k, item_name |-> name,
                                stock |-> quantity, price |-> price,
                                status |-> SendStatus(quantity), updated_at |-> 0]},
           nid |-> nid + 1]

\* handleSendItem under the nominal (unlimited) factory-stock policy
handleSendItem(mgr, e, k, quantity) ==
  /\ writes < MaxWrites
  /\ writes' = writes + 1
  /\ mgr \in Managers
  /\ k \in fetchKiosks(mgr)
  /\ Allowed("kiosk_inventory", "SELECT", mgr, k)
  /\ Allowed("kiosk_inventory", "UPDATE", mgr, k)
  /\ Allowed("kiosk_inventory", "INSERT", mgr, k)
  /\ LET res == SendUpsert(kiosk_inventory, nextId.kiosk_inventory, k,
                           factory_inventory[e].name, factory_inventory[e].price, quantity)
     IN /\ kiosk_inventory' = res.rows
        /\ nextId' = [nextId EXCEPT !.kiosk_inventory = res.nid]
  /\ last' = Last("send", k, factory_inventory[e].name, quantity, TRUE)
  /\ UNCHANGED <<uiVars, response, profiles, pending, factory_inventory, orders, purchase_orders, wastage,
                 clock_logs, reports, items, currentOrder, selectedOrder, editItems>>

\* ------------------------- manager: FactoryInventory with finite stock
\* handleUpdateItem of the finite-stock component: name, stock and price of
\* the entry are overwritten from the edit form (the entry's status label is
\* not kept in the model)
handleUpdateItemFinite(mgr, e, name, stock, price) ==
  /\ writes < MaxWrites
  /\ writes' = writes + 1
  /\ mgr \in Managers
  /\ FactoryWriteAllowed(mgr)
  /\ factory_inventory' = [factory_inventory EXCEPT
                             ![e] = [name |-> name, price |-> price, stock |-> stock]]
  /\ last' = Last("factory_edit", mgr, name, stock, TRUE)
  /\ UNCHANGED <<uiVars, response, profiles, pending, kiosk_inventory, orders, purchase_orders, wastage,
                 clock_logs, reports, nextId, items, currentOrder, selectedOrder,
                 editItems>>

\* handleSendItem of the finite-stock component: refused when the quantity
\* exceeds the entry's stock, otherwise the factory entry is lowered first
\* and the kiosk row incremented or inserted
handleSendItemFinite(mgr, e, k, quantity) ==
  /\ writes < MaxWrites
  /\ mgr \in Managers
  /\ k \in fetchKiosks(mgr)
  /\ IF quantity > factory_inventory[e].stock
     THEN /\ last' = Last("send_finite", k, factory_inventory[e].name, quantity, FALSE)
          /\ UNCHANGED <<factory_inventory, kiosk_inventory, nextId, writes>>
     ELSE /\ writes' = writes + 1
          /\ FactoryWriteAllowed(mgr)
          /\ factory_inventory' = [factory_inventory EXCEPT ![e].stock = @ - quantity]
          /\ Allowed("kiosk_inventory", "SELECT", mgr, k)
          /\ Allowed("kiosk_inventory", "UPDATE", mgr, k)
          /\ Allowed("kiosk_inventory", "INSERT", mgr, k)
          /\ LET res == SendUpsert(kiosk_inventory, nextId.kiosk_inventory, k,
                                   factory_inventory[e].name, factory_inventory[e].price,
                                   quantity)
             IN /\ kiosk_inventory' = res.rows
                /\ nextId' = [nextId EXCEPT !.kiosk_inventory = res.nid]
          /\ last' = Last("send_finite", k, factory_inventory[e].name, quantity, TRUE)
  /\ UNCHANGED <<uiVars, response, profiles, pending, orders, purchase_orders, wastage,
                 clock_logs, reports, items, currentOrder, selectedOrder, editItems>>

\* ------------------------------------------------ manager: PurchaseOrders
NoOrder == [id |-> 0, kiosk_id |-> "", open |-> FALSE]

\* handleEditClick(order)
handleEditClick(mgr, po) ==
  /\ mgr \in Managers
  /\ writes < MaxWrites
  /\ Allowed("purchase_orders", "SELECT", mgr, po.kiosk_id)
  /\ selectedOrder' = [id |-> po.id, kiosk_id |-> po.kiosk_id, open |-> TRUE]
  /\ editItems' = po.items
  /\ selectedOrder' # selectedOrder \/ editItems' # editItems
  /\ UNCHANGED <<uiVars, response, profiles, pending, factory_inventory, kiosk_inventory, orders,
                 purchase_orders, wastage, clock_logs, reports, nextId, items,
                 currentOrder, writes, last>>

\* handleItemChange(index, "quantity", parseInt(value) || 0)
handleItemChangeQuantity(index, quantity) ==
  /\ selectedOrder.open
  /\ index \in 1..Len(editItems)
  /\ editItems' = [editItems EXCEPT ![index].quantity = quantity]
  /\ editItems' # editItems
  /\ UNCHANGED <<uiVars, response, profiles, pending, factory_inventory, kiosk_inventory, orders,
                 purchase_orders, wastage, clock_logs, reports, nextId, items,
                 currentOrder, selectedOrder, writes, last>>

\* factoryInventory.find(f => f.name === item.name)?.price || 0
FactoryPrice(name) ==
  IF \E e \in FactoryIds : factory_inventory[e].name = name
  THEN factory_inventory[CHOOSE e \in FactoryIds :
          /\ factory_inventory[e].name = name
          /\ \A e2 \in FactoryIds : factory_inventory[e2].name = name => e <= e2].price
  ELSE 0

SaveEditNewStockOverwrites(existingStock, quantity) == quantity
\* stock: existingItem.stock + item.quantity
SaveEditNewStock(existingStock, quantity) == existingStock + quantity

\* one pass of the loop of handleSaveEdit: the stock is raised, the status
\* column is not written; a new row is labelled "In Stock"
SaveEditItem(rows, nid, k, item) ==
  LET existingItem == maybeSingle({r \in rows : r.kiosk_id = k /\ r.item_name = item.name})
  IN IF existingItem # <<>>
     THEN [rows |-> {IF r.id = existingItem[1].id
                     THEN update_updated_at_column(
                            [r EXCEPT !.stock = SaveEditNewStock(existingItem[1].stock,
                                                         item.quantity)])
                     ELSE r : r \in rows},
           nid |-> nid]
     ELSE [rows |-> rows \cup {[id |-> nid, kiosk_id |-> k, item_name |-> item.name,
                                stock |-> item.quantity, price |-> FactoryPrice(item.name),
                                status |-> "In Stock", updated_at |-> 0]},
           nid |-> nid + 1]

RECURSIVE SaveEditLoop(_, _, _, _)
SaveEditLoop(rows, nid, k, its) ==
  IF its = <<>> THEN [rows |-> rows, nid |-> nid]
  ELSE LET one == SaveEditItem(rows, nid, k, Head(its))
       IN SaveEditLoop(one.rows, one.nid, k, Tail(its))

\* handleSaveEdit
handleSaveEdit(mgr) ==
  /\ writes < MaxWrites
  /\ writes' = writes + 1
  /\ mgr \in Managers
  /\ selectedOrder.open
  /\ Allowed("purchase_orders", "UPDATE", mgr, selectedOrder.kiosk_id)
  /\ Allowed("kiosk_inventory", "UPDATE", mgr, selectedOrder.kiosk_id)
  /\ Allowed("kiosk_inventory", "INSERT", mgr, selectedOrder.kiosk_id)
  /\ purchase_orders' = {IF po.id = selectedOrder.id THEN [po EXCEPT !.items = editItems]
                         ELSE po : po \in purchase_orders}
  /\ LET res == SaveEditLoop(kiosk_inventory, nextId.kiosk_inventory,
                             selectedOrder.kiosk_id, editItems)
     IN /\ kiosk_inventory' = res.rows
        /\ nextId' = [nextId EXCEPT !.kiosk_inventory = res.nid]
  /\ selectedOrder' = [selectedOrder EXCEPT !.open = FALSE]
  /\ last' = Last("save_edit", selectedOrder.kiosk_id, NoItem, 0, TRUE)
  /\ UNCHANGED <<uiVars, response, profiles, pending, factory_inventory, orders, wastage, clock_logs,
                 reports, items, currentOrder, editItems>>

StatusUpdateClearingItems(r, newStatus) == [r EXCEPT !.status = newStatus, !.items = <<>>]
\* .update({ status: newStatus })
StatusUpdate(r, newStatus) == [r EXCEPT !.status = newStatus]

\* handleStatusChange(orderId, newStatus): the Select offers the four values
\* on every row and calls the handler when another value is picked; the
\* update is .update({ status: newStatus }).eq("id", orderId)
handleStatusChange(mgr, po, newStatus) ==
  /\ mgr \in Managers
  /\ po \in purchase_orders
  /\ Allowed("purchase_orders", "SELECT", mgr, po.kiosk_id)
  /\ newStatus \in Statuses
  /\ newStatus # po.status
  /\ writes < MaxWrites + MaxStatusChanges
  /\ writes' = writes + 1
  /\ purchase_orders' =
        {IF r.id = po.id /\ Allowed("purchase_orders", "UPDATE", mgr, r.kiosk_id)
         THEN StatusUpdate(r, newStatus) ELSE r : r \in purchase_orders}
  /\ last' = Last("status", po.kiosk_id, po.status, po.id, TRUE)
  /\ UNCHANGED <<uiVars, response, profiles, pending, factory_inventory, kiosk_inventory, orders,
                 wastage, clock_logs, reports, nextId, items, currentOrder,
                 selectedOrder, editItems>>

\* ------------------------------------------------ manager: ResetTodaysData
\* handleReset: deletes the day's orders, clock logs and reports the caller
\* may delete (every order and report of the model is of the current day;
\* the clock logs are those from 00:00:00 to before 23:59:59)
handleReset(mgr) ==
  /\ writes < MaxWrites
  /\ writes' = writes + 1
  /\ mgr \in Managers
  /\ orders # {} \/ clock_logs # {} \/ reports # {}
  /\ orders' = {o \in orders : ~Allowed("orders", "DELETE", mgr, o.kiosk_id)}
  /\ clock_logs' = {c \in clock_logs :
                       ~(/\ Allowed("clock_logs", "DELETE", mgr, c.kiosk_id)
                         /\ c.timestamp >= DayStart(Day(now))
                         /\ c.timestamp <= DayLastSecond(Day(now)))}
  /\ reports' = {r \in reports : ~Allowed("reports", "DELETE", mgr, r.kiosk_id)}
  /\ last' = Last("reset", mgr, NoItem, 0, TRUE)
  /\ UNCHANGED <<uiVars, response, profiles, pending, factory_inventory, kiosk_inventory, purchase_orders,
                 wastage, nextId, items, currentOrder, selectedOrder, editItems>>

\* --------------------------------------------------------------- wastage
WastageRow(id, k, order_id, name, q) ==
  [id |-> id, kiosk_id |-> k, order_id |-> order_id, item_name |-> name, quantity |-> q]

\* ItemWastageModal.handleSubmit: currentStock is the stock shown in the
\* caller's item list, and the decrement is computed from it
ItemWastageSubmit(k, itemName, currentStock, wastageQty) ==
  /\ k \in Kiosks
  /\ ~(wastageQty <= 0)
  /\ ~(wastageQty > currentStock)
  /\ writes < MaxWrites
  /\ writes' = writes + 1
  /\ Allowed("wastage", "INSERT", k, k)
  /\ wastage' = wastage \cup {WastageRow(nextId.wastage, k, DirectWastageOrder, itemName, wastageQty)}
  /\ nextId' = [nextId EXCEPT !.wastage = @ + 1]
  /\ LET newStock == Max(0, currentStock - wastageQty)
     IN kiosk_inventory' =
          {IF r.kiosk_id = k /\ r.item_name = itemName
              /\ Allowed("kiosk_inventory", "UPDATE", k, r.kiosk_id)
           THEN update_updated_at_column(
                  [r EXCEPT !.stock = newStock, !.status = SaleStatus(newStock)])
           ELSE r : r \in kiosk_inventory}
  /\ last' = Last("item_wastage", k, itemName, wastageQty, TRUE)
  /\ UNCHANGED <<uiVars, response, profiles, pending, factory_inventory, orders, purchase_orders,
                 clock_logs, reports, items, currentOrder, selectedOrder, editItems>>

ItemWastage(k) ==
  \E i \in 1..Len(items[k]) : \E w \in WastageQuantities :
     ItemWastageSubmit(k, items[k][i].item_name, items[k][i].stock, w)

WastageNewStockUnclamped(stock, wastageQty) == stock - wastageQty
\* Math.max(0, currentStock.stock - wastageQty)
WastageNewStock(stock, wastageQty) == Max(0, stock - wastageQty)

\* WastageModal.handleSubmit: the wastage row is inserted first; .single()
\* throws unless exactly one row matches; the update writes stock only
WastageSubmit(k, order, selectedItem, wastageQty) ==
  /\ k \in Kiosks
  /\ order.kiosk_id = k
  /\ Allowed("orders", "SELECT", k, order.kiosk_id)
  /\ selectedItem \in {order.items[i].name : i \in 1..Len(order.items)}
  /\ ~(wastageQty <= 0)
  /\ writes < MaxWrites
  /\ writes' = writes + 1
  /\ Allowed("wastage", "INSERT", k, k)
  /\ wastage' = wastage \cup {WastageRow(nextId.wastage, k, order.id, selectedItem, wastageQty)}
  /\ nextId' = [nextId EXCEPT !.wastage = @ + 1]
  /\ LET match == MatchingRows(k, selectedItem)
     IN IF Cardinality(match) = 1
        THEN LET currentStock == CHOOSE r \in match : TRUE
             IN /\ kiosk_inventory' =
                     {IF r.kiosk_id = k /\ r.item_name = selectedItem
                      THEN update_updated_at_column(
                             [r EXCEPT !.stock = WastageNewStock(currentStock.stock, wastageQty)])
                      ELSE r : r \in kiosk_inventory}
                /\ last' = Last("order_wastage", k, selectedItem, wastageQty, TRUE)
        ELSE /\ kiosk_inventory' = kiosk_inventory
             /\ last' = Last("order_wastage", k, selectedItem, wastageQty, FALSE)
  /\ UNCHANGED <<uiVars, response, profiles, pending, factory_inventory, orders, purchase_orders,
                 clock_logs, reports, items, currentOrder, selectedOrder, editItems>>

OrderWastage(k) ==
  \E o \in orders : \E i \in 1..Len(o.items) : \E w \in WastageQuantities :
     WastageSubmit(k, o, o.items[i].name, w)

\* ------------------------------------------------------------ attendance
\* the kioskId prop of the one ClockInOut component of the model
kioskId == "k1"

\* the public URL of `${kioskId}/${type}_${timestamp}.jpg`
fileName(k, type, timestamp) == [kiosk_id |-> k, type |-> type, timestamp |-> timestamp]

ClockRow(id, k, type, timestamp, image_url) ==
  [id |-> id, kiosk_id |-> k, type |-> type, timestamp |-> timestamp,
   image_url |-> image_url]

\* time passes
Tick ==
  /\ now < MaxNow
  /\ now' = now + 1
  /\ UNCHANGED <<delivered, inflight, instances, channels,
                 view, writers, photos, mounted, cameraOpen, capturedImage, streamRef, acquiring, leaked,
                 profiles, pending, factory_inventory, kiosk_inventory, orders,
                 purchase_orders, wastage, clock_logs, reports, nextId, items,
                 currentOrder, selectedOrder, editItems, writes, last, response>>

\* handleClock(type): one row with the current time and no photo
handleClock(type) ==
  /\ mounted
  /\ kioskId \in Kiosks
  /\ nextId.clock_logs <= MaxLogs
  /\ Allowed("clock_logs", "INSERT", kioskId, kioskId)
  /\ clock_logs' = clock_logs \cup
        {ClockRow(nextId.clock_logs, kioskId, type, now, NoPhoto)}
  /\ nextId' = [nextId EXCEPT !.clock_logs = @ + 1]
  /\ last' = Last("clock", kioskId, type, now, TRUE)
  /\ UNCHANGED <<uiVars, profiles, pending, factory_inventory, kiosk_inventory, orders,
                 purchase_orders, wastage, reports, items, currentOrder, selectedOrder,
                 editItems, writes, response>>

\* openCamera(type) up to the await of getUserMedia
openCamera(type) ==
  /\ mounted
  /\ cameraOpen = NoType
  /\ Len(acquiring) + leaked < MaxStreams
  /\ acquiring' = Append(acquiring, type)
  /\ UNCHANGED <<delivered, inflight, instances, channels,
                 view, writers, now, photos, mounted, cameraOpen, capturedImage, streamRef, leaked,
                 profiles, pending, factory_inventory, kiosk_inventory, orders,
                 purchase_orders, wastage, clock_logs, reports, nextId, items,
                 currentOrder, selectedOrder, editItems, writes, last, response>>

\* the rest of openCamera once getUserMedia has resolved: the stream is put
\* in streamRef, whatever it held, and the dialog is opened; on a component
\* that has been torn down the state update is dropped and the stream stays
\* live with nothing left to stop it
getUserMediaResolved(i) ==
  /\ i \in 1..Len(acquiring)
  /\ acquiring' = SubSeq(acquiring, 1, i - 1) \o SubSeq(acquiring, i + 1, Len(acquiring))
  /\ IF mounted
     THEN /\ streamRef' = TRUE
          /\ leaked' = IF streamRef THEN leaked + 1 ELSE leaked
          /\ cameraOpen' = acquiring[i]
     ELSE /\ leaked' = leaked + 1
          /\ UNCHANGED <<streamRef, cameraOpen>>
  /\ UNCHANGED <<delivered, inflight, instances, channels,
                 view, writers, now, photos, mounted, capturedImage,
                 profiles, pending, factory_inventory, kiosk_inventory, orders,
                 purchase_orders, wastage, clock_logs, reports, nextId, items,
                 currentOrder, selectedOrder, editItems, writes, last, response>>

\* the catch branch of openCamera: getUserMedia has rejected
getUserMediaRejected(i) ==
  /\ i \in 1..Len(acquiring)
  /\ acquiring' = SubSeq(acquiring, 1, i - 1) \o SubSeq(acquiring, i + 1, Len(acquiring))
  /\ UNCHANGED <<delivered, inflight, instances, channels,
                 view, writers, now, photos, mounted, cameraOpen, capturedImage, streamRef, leaked,
                 profiles, pending, factory_inventory, kiosk_inventory, orders,
                 purchase_orders, wastage, clock_logs, reports, nextId, items,
                 currentOrder, selectedOrder, editItems, writes, last, response>>

\* capturePhoto with its toBlob callback: the image takes the current time
\* and stopCamera() runs; without a live stream the video has no frame, the
\* canvas is empty and toBlob yields no blob
capturePhoto ==
  /\ mounted
  /\ cameraOpen # NoType
  /\ capturedImage = NoTime
  /\ streamRef
  /\ capturedImage' = now
  /\ streamRef' = FALSE
  /\ UNCHANGED <<delivered, inflight, instances, channels,
                 view, writers, now, photos, mounted, cameraOpen, acquiring, leaked,
                 profiles, pending, factory_inventory, kiosk_inventory, orders,
                 purchase_orders, wastage, clock_logs, reports, nextId, items,
                 currentOrder, selectedOrder, editItems, writes, last, response>>

\* closeCamera: stopCamera(), setCameraOpen(null), setCapturedImage(null)
closeCamera ==
  /\ mounted
  /\ cameraOpen # NoType
  /\ streamRef' = FALSE
  /\ cameraOpen' = NoType
  /\ capturedImage' = NoTime
  /\ UNCHANGED <<delivered, inflight, instances, channels,
                 view, writers, now, photos, mounted, acquiring, leaked,
                 profiles, pending, factory_inventory, kiosk_inventory, orders,
                 purchase_orders, wastage, clock_logs, reports, nextId, items,
                 currentOrder, selectedOrder, editItems, writes, last, response>>

uploadErrorIgnored(uploadOk, name) == TRUE
\* storage.upload(fileName, blob): uploadError is null when the transfer went
\* well and the bucket does not hold the file name yet
uploadSucceeds(uploadOk, name) == uploadOk /\ name \notin photos

\* submitImage: the upload, then the row with the photo's URL and the
\* capture time, then closeCamera(); a failed upload throws before the insert
submitImage(uploadOk) ==
  /\ mounted
  /\ capturedImage # NoTime
  /\ cameraOpen # NoType
  /\ kioskId \in Kiosks
  /\ LET name == fileName(kioskId, cameraOpen, capturedImage)
     IN IF uploadSucceeds(uploadOk, name)
        THEN /\ nextId.clock_logs <= MaxLogs /\ photos' = photos \cup {name}
             /\ Allowed("clock_logs", "INSERT", kioskId, kioskId)
             /\ clock_logs' = clock_logs \cup
                   {ClockRow(nextId.clock_logs, kioskId, cameraOpen, capturedImage, name)}
             /\ nextId' = [nextId EXCEPT !.clock_logs = @ + 1]
             /\ streamRef' = FALSE
             /\ cameraOpen' = NoType
             /\ capturedImage' = NoTime
             /\ last' = Last("clock_photo", kioskId, cameraOpen, capturedImage, TRUE)
        ELSE /\ last' = Last("clock_photo", kioskId, cameraOpen, capturedImage, FALSE)
             /\ UNCHANGED <<photos, clock_logs, nextId, streamRef, cameraOpen, capturedImage>>
  /\ UNCHANGED <<delivered, inflight, instances, channels,
                 view, writers, now, mounted, acquiring, leaked,
                 profiles, pending, factory_inventory, kiosk_inventory, orders,
                 purchase_orders, wastage, reports, items,
                 currentOrder, selectedOrder, editItems, writes, response>>

\* the cleanup of the mount effect: stopCamera() as the component goes
unmount ==
  /\ mounted
  /\ mounted' = FALSE
  /\ streamRef' = FALSE
  /\ UNCHANGED <<delivered, inflight, instances, channels,
                 view, writers, now, photos, cameraOpen, capturedImage, acquiring, leaked,
                 profiles, pending, factory_inventory, kiosk_inventory, orders,
                 purchase_orders, wastage, clock_logs, reports, nextId, items,
                 currentOrder, selectedOrder, editItems, writes, last, response>>

\* --------------------------------------------- attendance: the reports
\* the timestamp of the first row of type "in" of rows ordered by timestamp,
\* ascending or descending; NoTime when there is none
FirstIn(rows, ascending) ==
  LET ins == {r.timestamp : r \in {x \in rows : x.type = "in"}}
  IN IF ins = {} THEN NoTime
     ELSE IF ascending THEN CHOOSE t \in ins : \A u \in ins : t <= u
     ELSE CHOOSE t \in ins : \A u \in ins : t >= u

\* TodaysReport.fetchReports: .gte("timestamp", today 00:00:00), ascending
TodaysReportClockIn(uid, k) ==
  FirstIn({r \in clock_logs : /\ Allowed("clock_logs", "SELECT", uid, r.kiosk_id)
                               /\ r.kiosk_id = k
                               /\ r.timestamp >= DayStart(Day(now))}, TRUE)

\* KioskDashboard.fetchStats: .gte("timestamp", today 00:00:00), descending
KioskDashboardClockIn(k) ==
  FirstIn({r \in clock_logs : /\ Allowed("clock_logs", "SELECT", k, r.kiosk_id)
                               /\ r.kiosk_id = k
                               /\ r.timestamp >= DayStart(Day(now))}, FALSE)

\* PastAnalytics.fetchPastAnalytics: .gte(date 00:00:00).lte(date 23:59:59),
\* ascending
PastAnalyticsClockIn(uid, k, d) ==
  FirstIn({r \in clock_logs : /\ Allowed("clock_logs", "SELECT", uid, r.kiosk_id)
                               /\ r.kiosk_id = k
                               /\ r.timestamp >= DayStart(d)
                               /\ r.timestamp <= DayLastSecond(d)}, TRUE)

\* ------------------------------------------------------- specification
\* the store after the manager and one kiosk have signed up and the
\* manager has entered two factory items; every other table is empty
Init ==
  /\ profiles = [u \in Users |-> IF u = "m" THEN "manager"
                                ELSE IF u = "k1" THEN "kiosk" ELSE NoProfile]
  /\ pending = {}
  /\ factory_inventory = [e \in FactoryIds |->
        IF e = 1 THEN [name |-> "Pani Puri", price |-> 40, stock |-> UnlimitedStock]
        ELSE [name |-> "Gulab Jamun", price |-> 120, stock |-> UnlimitedStock]]
  /\ kiosk_inventory = {}
  /\ orders = {}
  /\ purchase_orders = {}
  /\ wastage = {}
  /\ clock_logs = {}
  /\ reports = {}
  /\ nextId = [kiosk_inventory |-> 1, orders |-> 1, purchase_orders |-> 1,
               wastage |-> 1, clock_logs |-> 1, reports |-> 1]
  /\ items = [u \in Users |-> fetchItems(u, {})]
  /\ currentOrder = [u \in Users |-> <<>>]
  /\ selectedOrder = NoOrder
  /\ editItems = <<>>
  /\ writes = 0
  /\ last = Last("init", "", NoItem, 0, TRUE)
  /\ response = {}
  /\ now = 0
  /\ leaked = 0
  /\ acquiring = <<>>
  /\ streamRef = FALSE
  /\ capturedImage = NoTime
  /\ cameraOpen = NoType
  /\ mounted = TRUE
  /\ photos = {}
  /\ view = [u \in Users |-> SignedOut]
  /\ writers = [w \in Writers |-> Idle]
  /\ delivered = 0
  /\ inflight = {}
  /\ instances = [v \in Views |-> 0]
  /\ channels = [v \in Views |-> 0]

Next ==
  \/ \E k \in Users : RefreshItems(k)
  \/ \E k \in Users : AddFromList(k)
  \/ \E k \in Users : AddFromCart(k)
  \/ \E k \in Users : \E i \in 1..Len(currentOrder[k]) : removeFromOrder(k, currentOrder[k][i].id)
  \/ \E k \in Users : handlePlaceOrder(k)
  \/ \E mgr \in Users : \E e \in FactoryIds : \E f \in FactoryEdits :
        handleUpdateItem(mgr, e, f.name, f.price)
  \/ \E mgr \in Users : \E e \in FactoryIds : \E k \in Users : \E q \in SendQuantities :
        handleSendItem(mgr, e, k, q)
  \/ \E mgr \in Users : \E po \in purchase_orders : handleEditClick(mgr, po)
  \/ \E i \in 1..Len(editItems) : \E q \in EditQuantities : handleItemChangeQuantity(i, q)
  \/ \E mgr \in Users : handleSaveEdit(mgr)
  \/ \E mgr \in Users : handleReset(mgr)
  \/ \E k \in Users : ItemWastage(k)
  \/ \E k \in Users : OrderWastage(k)

Spec == Init /\ [][Next]_vars

\* ---------------------------------------------------------------- sign-up
SignedIn == {u \in Users : profiles[u] # NoProfile}

\* handleSignUp up to the await of auth.signUp: for role manager the
\* existence check, evaluated over the profile rows the caller may read
SignUpCheck(caller, u, role) ==
  /\ caller \in SignedIn \cup {Anon}
  /\ profiles[u] = NoProfile
  /\ \A p \in pending : p.id # u
  /\ LET existingManager ==
           maybeSingle({id \in Users : profiles[id] = "manager" /\ ProfileVisible(caller, id)})
     IN IF role = "manager" /\ existingManager # <<>>
        THEN /\ pending' = pending
             /\ last' = Last("sign_up_check", u, NoItem, 0, FALSE)
        ELSE /\ pending' = pending \cup {[id |-> u, role |-> role]}
             /\ last' = Last("sign_up_check", u, NoItem, 0, TRUE)
  /\ UNCHANGED <<uiVars, response, profiles, factory_inventory, kiosk_inventory, orders,
                 purchase_orders, wastage, clock_logs, reports, nextId, items,
                 currentOrder, selectedOrder, editItems, writes>>

\* the rest of handleSignUp: auth.signUp, then the profile insert as the
\* new account
SignUpInsert(u) ==
  /\ \E p \in pending :
        /\ p.id = u
        /\ ProfileInsertPolicy(u, p.id)
        /\ profiles' = [profiles EXCEPT ![u] = p.role]
        /\ pending' = pending \ {p}
  /\ last' = Last("sign_up_insert", u, NoItem, 0, TRUE)
  /\ UNCHANGED <<uiVars, response, factory_inventory, kiosk_inventory, orders,
                 purchase_orders, wastage, clock_logs, reports, nextId, items,
                 currentOrder, selectedOrder, editItems, writes>>

\* no account has signed up yet
InitSignUp ==
  /\ profiles = [u \in Users |-> NoProfile]
  /\ pending = {}
  /\ factory_inventory = [e \in FactoryIds |->
        IF e = 1 THEN [name |-> "Pani Puri", price |-> 40, stock |-> UnlimitedStock]
        ELSE [name |-> "Gulab Jamun", price |-> 120, stock |-> UnlimitedStock]]
  /\ kiosk_inventory = {}
  /\ orders = {}
  /\ purchase_orders = {}
  /\ wastage = {}
  /\ clock_logs = {}
  /\ reports = {}
  /\ nextId = [kiosk_inventory |-> 1, orders |-> 1, purchase_orders |-> 1,
               wastage |-> 1, clock_logs |-> 1, reports |-> 1]
  /\ items = [u \in Users |-> <<>>]
  /\ currentOrder = [u \in Users |-> <<>>]
  /\ selectedOrder = NoOrder
  /\ editItems = <<>>
  /\ writes = 0
  /\ last = Last("init", "", NoItem, 0, TRUE)
  /\ response = {}
  /\ now = 0
  /\ leaked = 0
  /\ acquiring = <<>>
  /\ streamRef = FALSE
  /\ capturedImage = NoTime
  /\ cameraOpen = NoType
  /\ mounted = TRUE
  /\ photos = {}
  /\ view = [u \in Users |-> SignedOut]
  /\ writers = [w \in Writers |-> Idle]
  /\ delivered = 0
  /\ inflight = {}
  /\ instances = [v \in Views |-> 0]
  /\ channels = [v \in Views |-> 0]

NextSignUp ==
  \/ \E caller \in Users \cup {Anon} : \E u \in Users : \E role \in Roles :
        SignUpCheck(caller, u, role)
  \/ \E u \in Users : SignUpInsert(u)

SpecSignUp == InitSignUp /\ [][NextSignUp]_vars

\* ------------------------------------------- requests on the profiles table
\* one request of account uid on the profile row of account id through the
\* store's API; no policy exists for DELETE, so it affects no row
ProfilesRequest(uid, cmd, id, role) ==
  /\ uid \in SignedIn \cup {Anon}
  /\ cmd \in Commands
  /\ IF cmd = "SELECT"
     THEN /\ response' = {[id |-> x, role |-> profiles[x]] :
                             x \in {y \in SignedIn : ProfileVisible(uid, y)}}
          /\ profiles' = profiles
          /\ last' = Last(cmd, uid, NoItem, 0, TRUE)
     ELSE IF cmd = "UPDATE" /\ profiles[id] # NoProfile /\ ProfileUpdatePolicy(uid, id)
     THEN /\ profiles' = [profiles EXCEPT ![id] = role]
          /\ response' = {[id |-> id, role |-> role]}
          /\ last' = Last(cmd, uid, id, 0, TRUE)
     ELSE IF cmd = "INSERT" /\ profiles[id] = NoProfile /\ ProfileInsertPolicy(uid, id)
     THEN /\ profiles' = [profiles EXCEPT ![id] = role]
          /\ response' = {[id |-> id, role |-> role]}
          /\ last' = Last(cmd, uid, id, 0, TRUE)
     ELSE /\ profiles' = profiles
          /\ response' = {}
          /\ last' = Last(cmd, uid, id, 0, FALSE)
  /\ UNCHANGED <<uiVars, pending, factory_inventory, kiosk_inventory, orders,
                 purchase_orders, wastage, clock_logs, reports, nextId, items,
                 currentOrder, selectedOrder, editItems, writes>>

NextProfiles ==
  \E uid \in Users \cup {Anon} : \E cmd \in Commands : \E id \in Users : \E role \in Roles :
     ProfilesRequest(uid, cmd, id, role)

SpecProfiles == Init /\ [][NextProfiles]_vars

\* --------------------------------- requests on the tables carrying kiosk_id
Table(t) ==
  CASE t = "kiosk_inventory" -> kiosk_inventory
    [] t = "orders" -> orders
    [] t = "purchase_orders" -> purchase_orders
    [] t = "clock_logs" -> clock_logs
    [] t = "wastage" -> wastage
    [] t = "reports" -> reports

\* table t becomes rows, every other table is left as it is
TableBecomes(t, rows) ==
  /\ kiosk_inventory' = IF t = "kiosk_inventory" THEN rows ELSE kiosk_inventory
  /\ orders' = IF t = "orders" THEN rows ELSE orders
  /\ purchase_orders' = IF t = "purchase_orders" THEN rows ELSE purchase_orders
  /\ clock_logs' = IF t = "clock_logs" THEN rows ELSE clock_logs
  /\ wastage' = IF t = "wastage" THEN rows ELSE wastage
  /\ reports' = IF t = "reports" THEN rows ELSE reports

\* kiosk_id REFERENCES profiles(id)
KioskIdTargets == SignedIn

\* .from(t).select(): the rows passing a SELECT policy
ApiSelect(uid, t) ==
  /\ uid \in SignedIn \cup {Anon}
  /\ response' = {r \in Table(t) : Allowed(t, "SELECT", uid, r.kiosk_id)}
  /\ last' = Last("SELECT", uid, t, 0, TRUE)
  /\ last' # last \/ response' # response
  /\ UNCHANGED <<uiVars, profiles, pending, factory_inventory, kiosk_inventory, orders,
                 purchase_orders, wastage, clock_logs, reports, nextId, items,
                 currentOrder, selectedOrder, editItems, writes>>

\* .from(t).insert({kiosk_id}): the new row must pass an INSERT policy's
\* WITH CHECK
ApiInsert(uid, t, kiosk_id) ==
  /\ uid \in SignedIn \cup {Anon}
  /\ kiosk_id \in KioskIdTargets
  /\ writes < MaxApiWrites
  /\ IF Allowed(t, "INSERT", uid, kiosk_id)
     THEN /\ TableBecomes(t, Table(t) \cup {[id |-> nextId[t], kiosk_id |-> kiosk_id]})
          /\ nextId' = [nextId EXCEPT ![t] = @ + 1]
          /\ writes' = writes + 1
          /\ response' = {[id |-> nextId[t], kiosk_id |-> kiosk_id]}
          /\ last' = Last("INSERT", uid, t, 0, TRUE)
     ELSE /\ TableBecomes(t, Table(t))
          /\ UNCHANGED <<nextId, writes>>
          /\ response' = {}
          /\ last' = Last("INSERT", uid, t, 0, FALSE)
  /\ UNCHANGED <<uiVars, profiles, pending, factory_inventory, items, currentOrder,
                 selectedOrder, editItems>>

\* .from(t).update({kiosk_id}).eq("id", row.id): the row must pass an UPDATE
\* policy's USING and the new row its WITH CHECK, which is the USING
\* expression where the policy states none
ApiUpdate(uid, t, row, kiosk_id) ==
  /\ uid \in SignedIn \cup {Anon}
  /\ row \in Table(t)
  /\ kiosk_id \in KioskIdTargets
  /\ writes < MaxApiWrites
  /\ IF Allowed(t, "UPDATE", uid, row.kiosk_id) /\ Allowed(t, "UPDATE", uid, kiosk_id)
     THEN /\ TableBecomes(t, (Table(t) \ {row}) \cup {[row EXCEPT !.kiosk_id = kiosk_id]})
          /\ writes' = writes + 1
          /\ response' = {[row EXCEPT !.kiosk_id = kiosk_id]}
          /\ last' = Last("UPDATE", uid, t, 0, TRUE)
     ELSE /\ TableBecomes(t, Table(t))
          /\ UNCHANGED writes
          /\ response' = {}
          /\ last' = Last("UPDATE", uid, t, 0, FALSE)
  /\ UNCHANGED <<uiVars, profiles, pending, factory_inventory, nextId, items, currentOrder,
                 selectedOrder, editItems>>

\* .from(t).delete().eq("id", row.id): the row must pass a DELETE policy
ApiDelete(uid, t, row) ==
  /\ uid \in SignedIn \cup {Anon}
  /\ row \in Table(t)
  /\ writes < MaxApiWrites
  /\ IF Allowed(t, "DELETE", uid, row.kiosk_id)
     THEN /\ TableBecomes(t, Table(t) \ {row})
          /\ writes' = writes + 1
          /\ response' = {row}
          /\ last' = Last("DELETE", uid, t, 0, TRUE)
     ELSE /\ TableBecomes(t, Table(t))
          /\ UNCHANGED writes
          /\ response' = {}
          /\ last' = Last("DELETE", uid, t, 0, FALSE)
  /\ UNCHANGED <<uiVars, profiles, pending, factory_inventory, nextId, items, currentOrder,
                 selectedOrder, editItems>>

\* the manager and two kiosks have signed up; every table is empty
InitRLS ==
  /\ profiles = [u \in Users |-> IF u = "m" THEN "manager" ELSE "kiosk"]
  /\ pending = {}
  /\ factory_inventory = [e \in FactoryIds |->
        IF e = 1 THEN [name |-> "Pani Puri", price |-> 40, stock |-> UnlimitedStock]
        ELSE [name |-> "Gulab Jamun", price |-> 120, stock |-> UnlimitedStock]]
  /\ kiosk_inventory = {}
  /\ orders = {}
  /\ purchase_orders = {}
  /\ wastage = {}
  /\ clock_logs = {}
  /\ reports = {}
  /\ nextId = [kiosk_inventory |-> 1, orders |-> 1, purchase_orders |-> 1,
               wastage |-> 1, clock_logs |-> 1, reports |-> 1]
  /\ items = [u \in Users |-> <<>>]
  /\ currentOrder = [u \in Users |-> <<>>]
  /\ selectedOrder = NoOrder
  /\ editItems = <<>>
  /\ writes = 0
  /\ last = Last("init", "", NoItem, 0, TRUE)
  /\ response = {}
  /\ now = 0
  /\ leaked = 0
  /\ acquiring = <<>>
  /\ streamRef = FALSE
  /\ capturedImage = NoTime
  /\ cameraOpen = NoType
  /\ mounted = TRUE
  /\ photos = {}
  /\ view = [u \in Users |-> SignedOut]
  /\ writers = [w \in Writers |-> Idle]
  /\ delivered = 0
  /\ inflight = {}
  /\ instances = [v \in Views |-> 0]
  /\ channels = [v \in Views |-> 0]

NextRLS ==
  \/ \E uid \in Users \cup {Anon} : \E t \in Tables : ApiSelect(uid, t)
  \/ \E uid \in Users \cup {Anon} : \E t \in Tables : \E k \in Users : ApiInsert(uid, t, k)
  \/ \E uid \in Users \cup {Anon} : \E t \in Tables : \E r \in Table(t) : \E k \in Users :
        ApiUpdate(uid, t, r, k)
  \/ \E uid \in Users \cup {Anon} : \E t \in Tables : \E r \in Table(t) : ApiDelete(uid, t, r)

SpecRLS == InitRLS /\ [][NextRLS]_vars

\* ------------------------------------- the life of a purchase order
\* sends and sales, which create purchase orders, and the manager's status
\* Select
NextStatus ==
  \/ \E k \in Users : RefreshItems(k)
  \/ \E k \in Users : AddFromList(k)
  \/ \E k \in Users : handlePlaceOrder(k)
  \/ \E mgr \in Users : \E e \in FactoryIds : \E k \in Users : \E q \in SendQuantities :
        handleSendItem(mgr, e, k, q)
  \/ \E mgr \in Users : \E po \in purchase_orders : \E st \in Statuses :
        handleStatusChange(mgr, po, st)

SpecStatus == Init /\ [][NextStatus]_vars

\* ------------------------------------------------- the cart and the list
\* the store after the manager has sent 2 of each factory item to kiosk k1
\* and the kiosk has opened its sales screen
InitCart ==
  /\ profiles = [u \in Users |-> IF u = "m" THEN "manager"
                                ELSE IF u = "k1" THEN "kiosk" ELSE NoProfile]
  /\ pending = {}
  /\ factory_inventory = [e \in FactoryIds |->
        IF e = 1 THEN [name |-> "Pani Puri", price |-> 40, stock |-> UnlimitedStock]
        ELSE [name |-> "Gulab Jamun", price |-> 120, stock |-> UnlimitedStock]]
  /\ kiosk_inventory = {[id |-> e, kiosk_id |-> "k1", item_name |-> factory_inventory[e].name,
                          stock |-> 2, price |-> factory_inventory[e].price,
                          status |-> SendStatus(2), updated_at |-> 0] : e \in FactoryIds}
  /\ orders = {}
  /\ purchase_orders = {}
  /\ wastage = {}
  /\ clock_logs = {}
  /\ reports = {}
  /\ nextId = [kiosk_inventory |-> 3, orders |-> 1, purchase_orders |-> 1,
               wastage |-> 1, clock_logs |-> 1, reports |-> 1]
  /\ items = [u \in Users |-> fetchItems(u, kiosk_inventory)]
  /\ currentOrder = [u \in Users |-> <<>>]
  /\ selectedOrder = NoOrder
  /\ editItems = <<>>
  /\ writes = 0
  /\ last = Last("init", "", NoItem, 0, TRUE)
  /\ response = {}
  /\ now = 0
  /\ leaked = 0
  /\ acquiring = <<>>
  /\ streamRef = FALSE
  /\ capturedImage = NoTime
  /\ cameraOpen = NoType
  /\ mounted = TRUE
  /\ photos = {}
  /\ view = [u \in Users |-> SignedOut]
  /\ writers = [w \in Writers |-> Idle]
  /\ delivered = 0
  /\ inflight = {}
  /\ instances = [v \in Views |-> 0]
  /\ channels = [v \in Views |-> 0]

\* the cart handlers, the realtime refresh, the sale, and a direct wastage
\* entered in another session of the same kiosk account
NextCart ==
  \/ \E k \in Users : RefreshItems(k)
  \/ \E k \in Users : AddFromList(k)
  \/ \E k \in Users : AddFromCart(k)
  \/ \E k \in Users : \E i \in 1..Len(currentOrder[k]) : removeFromOrder(k, currentOrder[k][i].id)
  \/ \E k \in Users : handlePlaceOrder(k)
  \/ \E k \in Users : \E r \in kiosk_inventory : \E w \in CartWastageQuantities :
        ItemWastageSubmit(k, r.item_name, r.stock, w)

SpecCart == InitCart /\ [][NextCart]_vars

\* ------------------------------------------------ the kiosk's menu
\* the store after the manager has entered the first factory item under the
\* name "PANI PURI"
InitMenu ==
  /\ profiles = [u \in Users |-> IF u = "m" THEN "manager"
                                ELSE IF u = "k1" THEN "kiosk" ELSE NoProfile]
  /\ pending = {}
  /\ factory_inventory = [e \in FactoryIds |->
        IF e = 1 THEN [name |-> "PANI PURI", price |-> 45, stock |-> UnlimitedStock]
        ELSE [name |-> "Gulab Jamun", price |-> 120, stock |-> UnlimitedStock]]
  /\ kiosk_inventory = {}
  /\ orders = {}
  /\ purchase_orders = {}
  /\ wastage = {}
  /\ clock_logs = {}
  /\ reports = {}
  /\ nextId = [kiosk_inventory |-> 1, orders |-> 1, purchase_orders |-> 1,
               wastage |-> 1, clock_logs |-> 1, reports |-> 1]
  /\ items = [u \in Users |-> fetchItems(u, {})]
  /\ currentOrder = [u \in Users |-> <<>>]
  /\ selectedOrder = NoOrder
  /\ editItems = <<>>
  /\ writes = 0
  /\ last = Last("init", "", NoItem, 0, TRUE)
  /\ response = {}
  /\ now = 0
  /\ leaked = 0
  /\ acquiring = <<>>
  /\ streamRef = FALSE
  /\ capturedImage = NoTime
  /\ cameraOpen = NoType
  /\ mounted = TRUE
  /\ photos = {}
  /\ view = [u \in Users |-> SignedOut]
  /\ writers = [w \in Writers |-> Idle]
  /\ delivered = 0
  /\ inflight = {}
  /\ instances = [v \in Views |-> 0]
  /\ channels = [v \in Views |-> 0]

\* sends, renames of factory entries, the item list and the cart
NextMenu ==
  \/ \E k \in Users : RefreshItems(k)
  \/ \E k \in Users : AddFromList(k)
  \/ \E k \in Users : AddFromCart(k)
  \/ \E k \in Users : \E i \in 1..Len(currentOrder[k]) : removeFromOrder(k, currentOrder[k][i].id)
  \/ \E k \in Users : handlePlaceOrder(k)
  \/ \E mgr \in Users : \E e \in FactoryIds : \E f \in FactoryEdits :
        handleUpdateItem(mgr, e, f.name, f.price)
  \/ \E mgr \in Users : \E e \in FactoryIds : \E k \in Users : \E q \in SendQuantities :
        handleSendItem(mgr, e, k, q)

SpecMenu == InitMenu /\ [][NextMenu]_vars

\* ------------------------------------------- the finite factory stock
\* the store after the manager has added the two factory items with a stock
\* of 11 each
InitFinite ==
  /\ profiles = [u \in Users |-> IF u = "m" THEN "manager"
                                ELSE IF u = "k1" THEN "kiosk" ELSE NoProfile]
  /\ pending = {}
  /\ factory_inventory = [e \in FactoryIds |->
        IF e = 1 THEN [name |-> "Pani Puri", price |-> 40, stock |-> 11]
        ELSE [name |-> "Gulab Jamun", price |-> 120, stock |-> 11]]
  /\ kiosk_inventory = {}
  /\ orders = {}
  /\ purchase_orders = {}
  /\ wastage = {}
  /\ clock_logs = {}
  /\ reports = {}
  /\ nextId = [kiosk_inventory |-> 1, orders |-> 1, purchase_orders |-> 1,
               wastage |-> 1, clock_logs |-> 1, reports |-> 1]
  /\ items = [u \in Users |-> fetchItems(u, {})]
  /\ currentOrder = [u \in Users |-> <<>>]
  /\ selectedOrder = NoOrder
  /\ editItems = <<>>
  /\ writes = 0
  /\ last = Last("init", "", NoItem, 0, TRUE)
  /\ response = {}
  /\ now = 0
  /\ leaked = 0
  /\ acquiring = <<>>
  /\ streamRef = FALSE
  /\ capturedImage = NoTime
  /\ cameraOpen = NoType
  /\ mounted = TRUE
  /\ photos = {}
  /\ view = [u \in Users |-> SignedOut]
  /\ writers = [w \in Writers |-> Idle]
  /\ delivered = 0
  /\ inflight = {}
  /\ instances = [v \in Views |-> 0]
  /\ channels = [v \in Views |-> 0]

NextFinite ==
  \/ \E mgr \in Users : \E e \in FactoryIds : \E f \in FiniteEdits :
        handleUpdateItemFinite(mgr, e, f.name, f.stock, f.price)
  \/ \E mgr \in Users : \E e \in FactoryIds : \E k \in Users : \E q \in FiniteSendQuantities :
        handleSendItemFinite(mgr, e, k, q)

SpecFinite == InitFinite /\ [][NextFinite]_vars

\* ------------------------------------------------------- attendance
\* the clock actions of a kiosk as time passes, and the manager's reset
NextClock ==
  \/ Tick
  \/ \E type \in ClockTypes : handleClock(type)
  \/ \E type \in ClockTypes : openCamera(type)
  \/ \E i \in 1..Len(acquiring) : getUserMediaResolved(i)
  \/ capturePhoto
  \/ closeCamera
  \/ \E uploadOk \in BOOLEAN : submitImage(uploadOk)
  \/ \E mgr \in Users : writes < MaxResets /\ handleReset(mgr)

SpecClock == Init /\ [][NextClock]_vars

\* the clock actions with the photo-capture dialog and its camera stream,
\* and the manager's reset, at one time of day
NextCamera ==
  \/ \E type \in ClockTypes : handleClock(type)
  \/ \E mgr \in Users : writes < MaxResets /\ handleReset(mgr)
  \/ \E type \in ClockTypes : openCamera(type)
  \/ \E i \in 1..Len(acquiring) : getUserMediaResolved(i)
  \/ \E i \in 1..Len(acquiring) : getUserMediaRejected(i)
  \/ capturePhoto
  \/ closeCamera
  \/ \E uploadOk \in BOOLEAN : submitImage(uploadOk)
  \/ unmount

SpecCamera == Init /\ [][NextCamera]_vars

\* =================================================================
\* Properties
\* =================================================================
StoredRow(id) == CHOOSE r \in kiosk_inventory : r.id = id

\* the label the data model derives from a stock value
DerivedStatus(stock) ==
  IF stock = 0 THEN "Out of Stock"
  ELSE IF 0 < stock /\ stock < 10 THEN "Low Stock" ELSE "In Stock"

LineTotal(its) == SumSeq([i \in 1..Len(its) |-> its[i].quantity * its[i].price])

\* C1: in every reachable state every kiosk_inventory row has stock >= 0.
C1_StockNeverNegative == \A r \in kiosk_inventory : r.stock >= 0

\* C2: in every reachable state the status of every kiosk_inventory row is
\* the label derived from its stock: "Out of Stock" iff stock = 0,
\* "Low Stock" iff 0 < stock < 10, "In Stock" otherwise.
C2_StatusMatchesStock ==
  \A r \in kiosk_inventory :
     /\ (r.status = "Out of Stock") <=> (r.stock = 0)
     /\ (r.status = "Low Stock") <=> (0 < r.stock /\ r.stock < 10)
     /\ (r.status = "In Stock") <=> ~(r.stock = 0) /\ ~(0 < r.stock /\ r.stock < 10)

\* the order a sale step inserts carries the sum of its stored lines
SaleTotalIsLineSum ==
  \A o \in orders' \ orders : o.total = LineTotal(o.items)

\* C3 as claimed: a sale of a line with quantity q on a row whose stored
\* stock is s >= q, the row not having been written since the line was first
\* added to the cart, leaves the row with stock s - q; and the order's total
\* is the sum of quantity x price over its stored lines.  (Fails where the
\* item list was already behind the store at the first add: row at 11, list
\* fetched, send of 11, add, sale of 1 leaves the row at 10, not 21.)
C3_SaleAfterNoWriteSinceAdd ==
  [][\A k \in Users : handlePlaceOrder(k) =>
        /\ \A i \in 1..Len(currentOrder[k]) :
              LET line == currentOrder[k][i]
              IN (/\ \E r \in kiosk_inventory : r.id = line.id
                  /\ StoredRow(line.id).updated_at = line.stored_at_add
                  /\ StoredRow(line.id).stock >= line.quantity)
                 => \E r2 \in kiosk_inventory' :
                       /\ r2.id = line.id
                       /\ r2.stock = StoredRow(line.id).stock - line.quantity
        /\ SaleTotalIsLineSum]_vars

\* C3 amended: a sale of a line with quantity q on a row whose stored stock
\* s >= q equals the stock snapshot the cart line took from the item list
\* leaves the row with stock s - q; and the order's total is the sum of
\* quantity x price over its stored lines.
C3_SaleOfFreshLine ==
  [][\A k \in Users : handlePlaceOrder(k) =>
        /\ \A i \in FreshLines(k, currentOrder[k]) :
              LET line == currentOrder[k][i]
              IN \E r2 \in kiosk_inventory' :
                    /\ r2.id = line.id
                    /\ r2.stock = StoredRow(line.id).stock - line.quantity
        /\ SaleTotalIsLineSum]_vars

\* a sale of two fresh lines has run: its order holds two lines, one row was
\* brought below the reorder level and is labelled "Low Stock"
C3_Witness ==
  /\ last.op = "sale" /\ last.qty = 2
  /\ \E o \in orders : Len(o.items) = 2 /\ o.total > 0
  /\ \E r \in kiosk_inventory : r.stock = 9 /\ r.status = "Low Stock"

\* C4: for every cart line of a submitted sale a purchase order for that
\* item with quantity 50 - newStock and status "Preparing" is created iff
\* newStock = stock - quantity is below 10, stock being the value the cart
\* line carries; no other purchase order is created.
C4_PurchaseOrderIffLow ==
  [][\A k \in Users : handlePlaceOrder(k) =>
        LET cart == currentOrder[k]
            created == purchase_orders' \ purchase_orders
            newStock(i) == cart[i].stock - cart[i].quantity
            low == {i \in 1..Len(cart) : newStock(i) < 10}
            orderFor(i) == {po \in created :
                              /\ po.kiosk_id = k
                              /\ po.status = "Preparing"
                              /\ po.items = <<[name |-> cart[i].item_name,
                                               quantity |-> 50 - newStock(i)]>>}
        IN /\ \A i \in 1..Len(cart) : (i \in low) <=> (orderFor(i) # {})
           /\ Cardinality(created) = Cardinality(low)
           /\ purchase_orders \subseteq purchase_orders']_vars

\* a sale of two lines has run of which exactly one raised a purchase order
C4_Witness ==
  /\ last.op = "sale"
  /\ \E o \in orders : Len(o.items) = 2
  /\ Cardinality(purchase_orders) = 1
  /\ \E po \in purchase_orders : po.status = "Preparing" /\ po.items[1].quantity >= 41

\* C5: wastage of quantity w against a row whose stored stock is s leaves
\* the row with stock max(0, s - w) and the status derived from that stock,
\* on the direct-entry path and on the order-linked path.
C5_WastageClampsAndLabels ==
  [][\A k \in Users :
        /\ \A i \in 1..Len(items[k]) : \A w \in WastageQuantities :
              ItemWastageSubmit(k, items[k][i].item_name, items[k][i].stock, w) =>
                 \A r \in MatchingRows(k, items[k][i].item_name) :
                    \E r2 \in kiosk_inventory' :
                       /\ r2.id = r.id
                       /\ r2.stock = Max(0, r.stock - w)
                       /\ r2.status = DerivedStatus(r2.stock)
        /\ \A o \in orders : \A i \in 1..Len(o.items) : \A w \in WastageQuantities :
              WastageSubmit(k, o, o.items[i].name, w) =>
                 \A r \in MatchingRows(k, o.items[i].name) :
                    \E r2 \in kiosk_inventory' :
                       /\ r2.id = r.id
                       /\ r2.stock = Max(0, r.stock - w)
                       /\ r2.status = DerivedStatus(r2.stock)]_vars

\* a kiosk holds at most one row per item name
OneRowPerName ==
  \A r1, r2 \in kiosk_inventory :
     (r1.kiosk_id = r2.kiosk_id /\ r1.item_name = r2.item_name) => r1.id = r2.id

\* C7: a send of n of factory entry e to kiosk k raises the stock of k's row
\* named e.name by n and inserts nothing, or, k having no such row, inserts
\* exactly one row with stock n, price e.price and the derived status; and a
\* kiosk holds at most one row per item name.
C7_SendIncrementsOrInserts ==
  [][\A mgr \in Users : \A e \in FactoryIds : \A k \in Users : \A n \in SendQuantities :
        handleSendItem(mgr, e, k, n) =>
           LET match == MatchingRows(k, factory_inventory[e].name)
               inserted == {r2 \in kiosk_inventory' :
                              \A r \in kiosk_inventory : r.id # r2.id}
           IN /\ IF match # {}
                 THEN /\ inserted = {}
                      /\ \A r \in match : \E r2 \in kiosk_inventory' :
                            r2.id = r.id /\ r2.stock = r.stock + n
                 ELSE /\ Cardinality(inserted) = 1
                      /\ \A r2 \in inserted :
                            /\ r2.kiosk_id = k
                            /\ r2.item_name = factory_inventory[e].name
                            /\ r2.stock = n
                            /\ r2.price = factory_inventory[e].price
                            /\ r2.status = DerivedStatus(n)
              /\ OneRowPerName']_vars

\* C8: an order row, once inserted, keeps its items and its total in every
\* later step; it leaves the table only by a manager's handleReset.
C8_OrdersImmutable ==
  [][/\ \A o \in orders : \A o2 \in orders' : o2.id = o.id => o2 = o
     /\ (orders \ orders' # {}) => \E mgr \in Users : IsManager(mgr) /\ handleReset(mgr)]_vars

\* an order holds a line of an item whose factory entry has since been
\* renamed and repriced by handleUpdateItem
C8_Witness ==
  /\ last.op = "factory_edit"
  /\ \E o \in orders : \A e \in FactoryIds : factory_inventory[e].name # o.items[1].name

\* C6: in every reachable state at most one profile row has role "manager",
\* whatever sign-ups as manager have run, one after another or interleaved,
\* the existence check seeing the rows its caller may read.
C6_AtMostOneManager == Cardinality({u \in Users : profiles[u] = "manager"}) <= 1

\* the rows of table t that a step adds, removes or rewrites: their images
\* before and after
RowsWritten(t) == (Table(t)' \ Table(t)) \cup (Table(t) \ Table(t)')

\* C9: for an account with role kiosk a read of a table carrying kiosk_id
\* returns only rows whose kiosk_id is the caller's id, and its insert,
\* update or delete writes no row whose kiosk_id is another account's id;
\* for an account with role manager a read returns every row of the table.
C9_KioskIsolation ==
  [][/\ (last'.op = "SELECT" /\ get_user_role(last'.kiosk) = "kiosk")
           => response' = {r \in Table(last'.item) : r.kiosk_id = last'.kiosk}
     /\ (last'.op = "SELECT" /\ get_user_role(last'.kiosk) = "manager")
           => response' = Table(last'.item)
     /\ (last'.op \in {"INSERT", "UPDATE", "DELETE"} /\ get_user_role(last'.kiosk) = "kiosk")
           => \A t \in Tables : \A r \in RowsWritten(t) : r.kiosk_id = last'.kiosk]_vars

\* kiosk k1 has read the orders table, which holds a row of k1 and a row of
\* k2, and got its own row only
C9_Witness ==
  /\ last.op = "SELECT" /\ last.kiosk = "k1" /\ last.item = "orders"
  /\ \E r \in orders : r.kiosk_id = "k2"
  /\ response # {}
  /\ response = {r \in orders : r.kiosk_id = "k1"}

\* C10: the role of a profile row never changes once the row exists, under
\* every request an account is permitted to make on the profiles table.
C10_RoleImmutable ==
  [][\A u \in Users : profiles[u] # NoProfile => profiles'[u] = profiles[u]]_vars

\* the edges of the purchase-order status machine
StatusEdges == {<<"Preparing", "Out for Delivery">>, <<"Out for Delivery", "Delivered">>,
                <<"Preparing", "Rejected">>}

\* C11: every purchase order is created with status "Preparing"; in every
\* step the status of a purchase order stays as it is or moves along
\* Preparing -> Out for Delivery -> Delivered or Preparing -> Rejected, so a
\* "Delivered" or "Rejected" order keeps its status for ever.
C11_StatusMachine ==
  [][/\ \A po2 \in purchase_orders' :
           (\A po \in purchase_orders : po.id # po2.id) => po2.status = "Preparing"
     /\ \A po \in purchase_orders : \A po2 \in purchase_orders' :
           po2.id = po.id =>
              \/ po2.status = po.status
              \/ <<po.status, po2.status>> \in StatusEdges]_vars

\* the stock the caller's item list shows for an item name (0 when the list
\* has no such row)
ListedStock(k, name) ==
  IF \E i \in 1..Len(items[k]) : items[k][i].item_name = name
  THEN items[k][CHOOSE i \in 1..Len(items[k]) : items[k][i].item_name = name].stock
  ELSE 0

\* C12: a handler whose input fails validation writes nothing: a sale of an
\* empty cart, a send of a non-positive quantity, a direct wastage of a
\* non-positive quantity or of more than the listed stock leave every table
\* exactly as it was.
C12_InvalidInputWritesNothing ==
  [][((\/ last'.op = "sale" /\ writes' # writes /\ currentOrder[last'.kiosk] = <<>>
       \/ last'.op = "send" /\ writes' # writes /\ last'.qty <= 0
       \/ /\ last'.op = "item_wastage" /\ writes' # writes
          /\ (last'.qty <= 0 \/ last'.qty > ListedStock(last'.kiosk, last'.item)))
      => UNCHANGED <<factory_inventory, kiosk_inventory, orders, purchase_orders,
                     wastage, clock_logs, reports>>)]_vars

\* C13: when handlePlaceOrder runs, every cart line has
\* 1 <= quantity <= the stock of its row in the kiosk's last-fetched item
\* list, whatever adds, removes and refreshes came before.
C13_CartWithinListedStock ==
  [][\A k \in Users : handlePlaceOrder(k) =>
        \A i \in 1..Len(currentOrder[k]) :
           /\ 1 <= currentOrder[k][i].quantity
           /\ \E j \in 1..Len(items[k]) :
                 /\ items[k][j].id = currentOrder[k][i].id
                 /\ currentOrder[k][i].quantity <= items[k][j].stock]_vars

\* C14: under the finite factory-stock policy a send of more than the
\* entry's stock is refused and writes nothing, an accepted send lowers the
\* entry's stock by exactly the quantity sent, and no factory entry ever
\* has a negative stock.
C14_FiniteFactoryStock ==
  [][/\ \A mgr \in Users : \A e \in FactoryIds : \A k \in Users : \A n \in FiniteSendQuantities :
           handleSendItemFinite(mgr, e, k, n) =>
              IF n > factory_inventory[e].stock
              THEN /\ ~last'.ok
                   /\ UNCHANGED <<factory_inventory, kiosk_inventory, orders, purchase_orders,
                                  wastage, clock_logs, reports>>
              ELSE factory_inventory'[e].stock = factory_inventory[e].stock - n
     /\ \A e \in FactoryIds : factory_inventory'[e].stock >= 0]_vars

\* the earliest clock log of type "in" of kiosk k on day d
EarliestIn(k, d) ==
  LET ins == {r.timestamp : r \in {x \in clock_logs :
                 x.kiosk_id = k /\ x.type = "in" /\ Day(x.timestamp) = d}}
  IN IF ins = {} THEN NoTime ELSE CHOOSE t \in ins : \A u \in ins : t <= u

\* C15: at every call site the clock-in reported for a kiosk is the earliest
\* clock log of type "in" of the day: today for the manager's TodaysReport
\* and the kiosk's dashboard, the chosen date for PastAnalytics.
C15_ClockInIsEarliest ==
  \A k \in Kiosks :
     /\ TodaysReportClockIn("m", k) = EarliestIn(k, Day(now))
     /\ KioskDashboardClockIn(k) = EarliestIn(k, Day(now))
     /\ \A d \in 0..Day(now) : PastAnalyticsClockIn("m", k, d) = EarliestIn(k, d)

\* what a clock action does to clock_logs: handleClock adds exactly one row
\* of its type with a null photo reference; submitImage adds exactly one
\* row of the dialog's type carrying the reference of the photo it has just
\* uploaded, and adds no row and stores no photo when the upload failed
ClockActionsAddOneRow ==
  /\ \A type \in ClockTypes : handleClock(type) =>
        /\ clock_logs \subseteq clock_logs'
        /\ Cardinality(clock_logs' \ clock_logs) = 1
        /\ \A r \in clock_logs' \ clock_logs :
              r.kiosk_id = kioskId /\ r.type = type /\ r.image_url = NoPhoto
  /\ \A uploadOk \in BOOLEAN : submitImage(uploadOk) =>
        /\ clock_logs \subseteq clock_logs'
        /\ IF uploadOk /\ fileName(kioskId, cameraOpen, capturedImage) \notin photos
           THEN /\ Cardinality(clock_logs' \ clock_logs) = 1
                /\ \A r \in clock_logs' \ clock_logs :
                      /\ r.kiosk_id = kioskId /\ r.type = cameraOpen
                      /\ r.image_url # NoPhoto
                      /\ r.image_url \in photos' \ photos
           ELSE clock_logs' = clock_logs
        /\ ~uploadOk => (clock_logs' = clock_logs /\ photos' = photos)

C17_NoStreamHeldWhenClosed ==
  (cameraOpen = NoType \/ ~mounted) => (~streamRef /\ leaked = 0)

\* two item names are the same but for the case of their letters
SameNameIgnoringCase(a, b) ==
  \/ a = b
  \/ {a, b} \subseteq {"Pani Puri", "PANI PURI", "pani puri"}

\* the rows of item list l that stand for predefined item i without a
\* stored row behind them
PlaceholdersFor(l, i) ==
  {j \in 1..Len(l) : l[j].item_name = PREDEFINED_ITEMS[i].name /\ IsPlaceholder(l[j].id)}

\* the item list of kiosk k shows, for each predefined item, a placeholder
\* (stock 0, "Out of Stock", the predefined price) exactly when the kiosk
\* has no stored row of that name, case ignored
MenuShowsPlaceholdersExactly(k) ==
  \A i \in 1..Len(PREDEFINED_ITEMS) :
     /\ (PlaceholdersFor(items[k], i) # {}) <=>
           ~\E r \in kiosk_inventory :
               r.kiosk_id = k /\ SameNameIgnoringCase(r.item_name, PREDEFINED_ITEMS[i].name)
     /\ \A j \in PlaceholdersFor(items[k], i) :
           /\ items[k][j].stock = 0
           /\ items[k][j].status = "Out of Stock"
           /\ items[k][j].price = PREDEFINED_ITEMS[i].price

NoPlaceholderInCartOrOrders ==
  /\ \A k \in Users : \A i \in 1..Len(currentOrder[k]) : ~IsPlaceholder(currentOrder[k][i].id)
  /\ \A o \in orders : \A i \in 1..Len(o.items) : ~IsPlaceholder(o.items[i].id)

\* C18: every item list a kiosk fetches shows for each predefined item a
\* placeholder row (stock 0, "Out of Stock", predefined price) exactly when
\* the kiosk has no kiosk_inventory row of that name, case ignored; and no
\* placeholder row is ever in a cart or in an order.
C18_PlaceholdersOnlyForMissing ==
  [][/\ \A k \in Users :
           (RefreshItems(k) \/ handlePlaceOrder(k)) => MenuShowsPlaceholdersExactly(k)'
     /\ NoPlaceholderInCartOrOrders']_vars

\* a kiosk whose only row of the predefined item is named "PANI PURI" has
\* fetched its list, which shows that row and no placeholder, and has sold
\* from it
C18_Witness ==
  /\ last.op = "sale"
  /\ \E r \in kiosk_inventory : r.kiosk_id = "k1" /\ r.item_name = "PANI PURI"
  /\ ~\E r \in kiosk_inventory : r.kiosk_id = "k1" /\ r.item_name = "Pani Puri"
  /\ \E j \in 1..Len(items["k1"]) : items["k1"][j].item_name = "PANI PURI"
  /\ \A j \in 1..Len(items["k1"]) : ~IsPlaceholder(items["k1"][j].id)
  /\ \E o \in orders : o.items[1].name = "PANI PURI"

\* ------------------------------------------------------------ routing
\* view[u] is the browser in which account u works: the page it shows,
\* whether the checkAuth that the page runs on mount is still outstanding,
\* and whether supabase.auth holds a session for u.  Everything else is
\* left alone by the routing handlers.
routingFrame ==
  UNCHANGED <<delivered, inflight, instances, channels,
                 profiles, pending, factory_inventory, kiosk_inventory, orders,
              purchase_orders, wastage, clock_logs, reports, nextId, items,
              currentOrder, selectedOrder, editItems, writes, last, response,
              now, photos, mounted, cameraOpen, capturedImage, streamRef,
              acquiring, leaked, writers>>

\* .single(): an error when the request fails and when the query matches
\* no row; the account reads its own row, which the SELECT policy shows
profileSingle(u, lookup) ==
  IF lookup = "ok" /\ ProfileVisible(u, u) /\ profiles[u] # NoProfile
  THEN [error |-> FALSE, role |-> profiles[u]]
  ELSE [error |-> TRUE, role |-> NoProfile]

\* .maybeSingle(): an error only when the request fails; no row is data null
profileMaybeSingle(u, lookup) ==
  IF lookup = "ok" /\ ProfileVisible(u, u)
  THEN [error |-> FALSE, role |-> profiles[u]]
  ELSE [error |-> TRUE, role |-> NoProfile]

\* Auth.handleSignIn with valid credentials: the profile's role is looked
\* up with .single() and its error is not read; "manager" goes to the
\* manager dashboard and everything else, a null profile included, to the
\* kiosk dashboard
handleSignIn(u, lookup) ==
  /\ view[u].page = "/auth"
  /\ LET profile == profileSingle(u, lookup)
     IN view' = [view EXCEPT ![u] =
          [page |-> IF profile.role = "manager" THEN "/manager-dashboard"
                    ELSE "/kiosk-dashboard",
           checking |-> TRUE, session |-> TRUE]]
  /\ routingFrame

\* the address of a dashboard is entered by hand: the page mounts and its
\* checkAuth starts
enterUrl(u, page) ==
  /\ page \in Pages \ {"/auth"}
  /\ ~view[u].checking
  /\ view[u].page # page
  /\ view' = [view EXCEPT ![u].page = page, ![u].checking = TRUE]
  /\ routingFrame

\* ManagerDashboard.checkAuth: no session goes to /auth; a profile error
\* ends the check where it is (toast, setLoading(false), return); a role
\* other than "manager" goes to the kiosk dashboard
ManagerCheckAuth(u, lookup) ==
  /\ view[u].page = "/manager-dashboard"
  /\ view[u].checking
  /\ LET profile == profileSingle(u, lookup)
     IN view' = [view EXCEPT ![u] =
          IF ~view[u].session
          THEN [page |-> "/auth", checking |-> FALSE, session |-> FALSE]
          ELSE IF profile.error
          THEN [@ EXCEPT !.checking = FALSE]
          ELSE IF profile.role # "manager"
          THEN [@ EXCEPT !.page = "/kiosk-dashboard", !.checking = TRUE]
          ELSE [@ EXCEPT !.checking = FALSE]]
  /\ routingFrame

\* KioskDashboard.checkAuth: no session, a profile error and no profile
\* all go to /auth; a role other than "kiosk" goes to the manager
\* dashboard
KioskCheckAuth(u, lookup) ==
  /\ view[u].page = "/kiosk-dashboard"
  /\ view[u].checking
  /\ LET profile == profileMaybeSingle(u, lookup)
     IN view' = [view EXCEPT ![u] =
          IF ~view[u].session
          THEN [page |-> "/auth", checking |-> FALSE, session |-> FALSE]
          ELSE IF profile.error \/ profile.role = NoProfile
          THEN [@ EXCEPT !.page = "/auth", !.checking = FALSE]
          ELSE IF profile.role # "kiosk"
          THEN [@ EXCEPT !.page = "/manager-dashboard", !.checking = TRUE]
          ELSE [@ EXCEPT !.checking = FALSE]]
  /\ routingFrame

\* the accounts of Init: a manager, a kiosk, and k2, an account whose
\* profile row does not exist
NextRouting ==
  \/ \E u \in Users, lookup \in Lookups : handleSignIn(u, lookup)
  \/ \E u \in Users, page \in Pages : enterUrl(u, page)
  \/ \E u \in Users, lookup \in Lookups : ManagerCheckAuth(u, lookup)
  \/ \E u \in Users, lookup \in Lookups : KioskCheckAuth(u, lookup)

SpecRouting == Init /\ [][NextRouting]_vars

\* C19: an account that has settled on a dashboard (the page's checkAuth
\* has finished) has the role of that dashboard: "manager" on the manager
\* dashboard, "kiosk" on the kiosk dashboard; a failed lookup or a missing
\* profile row never leaves an account on a dashboard.
C19_DashboardMatchesRole ==
  \A u \in Users :
    ~view[u].checking =>
      /\ view[u].page = "/manager-dashboard" => profiles[u] = "manager"
      /\ view[u].page = "/kiosk-dashboard" => profiles[u] = "kiosk"

\* -------------------------------------- concurrent writers of one row
\* Two sessions work on the row of "Pani Puri" at kiosk k1.  A sale reads
\* the row when the kiosk's tab loads its item list and puts the item in
\* the cart, and writes when the order is placed; a send reads the row
\* in handleSendItem's lookup and writes in the update that follows it.
\* writers[w] holds what writer w has read and where it stands.
RaceStocks == {2, 11}
RaceSendQuantities == {1, 5}
RaceItem == "Pani Puri"

InitRace ==
  /\ profiles = [u \in Users |-> IF u = "m" THEN "manager"
                                ELSE IF u = "k1" THEN "kiosk" ELSE NoProfile]
  /\ pending = {}
  /\ factory_inventory = [e \in FactoryIds |->
        IF e = 1 THEN [name |-> RaceItem, price |-> 40, stock |-> UnlimitedStock]
        ELSE [name |-> "Gulab Jamun", price |-> 120, stock |-> UnlimitedStock]]
  /\ \E s \in RaceStocks :
       kiosk_inventory = {[id |-> 1, kiosk_id |-> kioskId, item_name |-> RaceItem,
                           stock |-> s, price |-> 40,
                           status |-> SendStatus(s), updated_at |-> 0]}
  /\ orders = {}
  /\ purchase_orders = {}
  /\ wastage = {}
  /\ clock_logs = {}
  /\ reports = {}
  /\ nextId = [kiosk_inventory |-> 2, orders |-> 1, purchase_orders |-> 1,
               wastage |-> 1, clock_logs |-> 1, reports |-> 1]
  /\ items = [u \in Users |-> fetchItems(u, kiosk_inventory)]
  /\ currentOrder = [u \in Users |-> <<>>]
  /\ selectedOrder = NoOrder
  /\ editItems = <<>>
  /\ writes = 0
  /\ last = Last("init", "", NoItem, 0, TRUE)
  /\ response = {}
  /\ now = 0
  /\ leaked = 0
  /\ acquiring = <<>>
  /\ streamRef = FALSE
  /\ capturedImage = NoTime
  /\ cameraOpen = NoType
  /\ mounted = TRUE
  /\ photos = {}
  /\ view = [u \in Users |-> SignedOut]
  /\ writers = [w \in Writers |-> Idle]
  /\ delivered = 0
  /\ inflight = {}
  /\ instances = [v \in Views |-> 0]
  /\ channels = [v \in Views |-> 0]

\* the row both writers address
RaceRows == {r \in kiosk_inventory : r.kiosk_id = kioskId /\ r.item_name = RaceItem}
RaceRow == CHOOSE r \in RaceRows : TRUE

\* the cart of a sale writer: one line, carrying the stock the tab had
\* loaded when the item was added
RaceCart(w) ==
  <<[id |-> RaceRow.id, item_name |-> RaceItem, price |-> RaceRow.price,
     stock |-> writers[w].read, quantity |-> writers[w].qty]>>

\* a kiosk tab loads its items and q units are put in the cart (addToOrder
\* admits at most the loaded stock)
SaleRead(w, q) ==
  /\ writers[w].pc = "idle"
  /\ RaceRows # {}
  /\ Allowed("kiosk_inventory", "SELECT", kioskId, kioskId)
  /\ q >= 1 /\ q <= RaceRow.stock
  /\ writers' = [writers EXCEPT ![w] =
        [kind |-> "sale", qty |-> q, read |-> RaceRow.stock, pc |-> "read"]]
  /\ UNCHANGED <<delivered, inflight, instances, channels,
                 view, now, photos, mounted, cameraOpen, capturedImage, streamRef,
                 acquiring, leaked, response, profiles, pending, factory_inventory,
                 kiosk_inventory, orders, purchase_orders, wastage, clock_logs,
                 reports, nextId, items, currentOrder, selectedOrder, editItems,
                 writes, last>>

\* handlePlaceOrder of that tab: the order row, the stock update computed
\* from the cart line, the purchase order for a low line
SaleWrite(w) ==
  /\ writers[w].pc = "read"
  /\ writers[w].kind = "sale"
  /\ Allowed("orders", "INSERT", kioskId, kioskId)
  /\ Allowed("purchase_orders", "INSERT", kioskId, kioskId)
  /\ orders' = orders \cup {[id |-> nextId.orders, kiosk_id |-> kioskId,
                             items |-> orderItems(RaceCart(w)),
                             total |-> getTotalPrice(RaceCart(w))]}
  /\ kiosk_inventory' = SaleStockUpdates(kioskId, RaceCart(w), kiosk_inventory)
  /\ purchase_orders' = purchase_orders \cup
         SalePurchaseOrders(kioskId, RaceCart(w), nextId.purchase_orders)
  /\ nextId' = [nextId EXCEPT !.orders = @ + 1,
                              !.purchase_orders = @ + Len(LowLines(RaceCart(w)))]
  /\ writers' = [writers EXCEPT ![w].pc = "done"]
  /\ UNCHANGED <<delivered, inflight, instances, channels,
                 view, now, photos, mounted, cameraOpen, capturedImage, streamRef,
                 acquiring, leaked, response, profiles, pending, factory_inventory,
                 wastage, clock_logs, reports, items, currentOrder, selectedOrder,
                 editItems, writes, last>>

\* handleSendItem up to the answer of its lookup: existingItem is the row
SendRead(w, n) ==
  /\ writers[w].pc = "idle"
  /\ "m" \in Managers
  /\ Allowed("kiosk_inventory", "SELECT", "m", kioskId)
  /\ maybeSingle(RaceRows) # <<>>
  /\ writers' = [writers EXCEPT ![w] =
        [kind |-> "send", qty |-> n, read |-> maybeSingle(RaceRows)[1].stock,
         pc |-> "read"]]
  /\ UNCHANGED <<delivered, inflight, instances, channels,
                 view, now, photos, mounted, cameraOpen, capturedImage, streamRef,
                 acquiring, leaked, response, profiles, pending, factory_inventory,
                 kiosk_inventory, orders, purchase_orders, wastage, clock_logs,
                 reports, nextId, items, currentOrder, selectedOrder, editItems,
                 writes, last>>

SendNewStockFromStore(stored, existingStock, quantity) == stored + quantity
\* newStock = existingItem.stock + quantity, from the row as it was read
SendNewStock(stored, existingStock, quantity) == existingStock + quantity

\* the rest of handleSendItem: .update({stock, status}).eq("id", existingItem.id)
SendWrite(w) ==
  /\ writers[w].pc = "read"
  /\ writers[w].kind = "send"
  /\ Allowed("kiosk_inventory", "UPDATE", "m", kioskId)
  /\ kiosk_inventory' =
       {IF r \in RaceRows
        THEN LET newStock == SendNewStock(r.stock, writers[w].read, writers[w].qty)
             IN update_updated_at_column(
                  [r EXCEPT !.stock = newStock, !.status = SendStatus(newStock)])
        ELSE r : r \in kiosk_inventory}
  /\ writers' = [writers EXCEPT ![w].pc = "done"]
  /\ UNCHANGED <<delivered, inflight, instances, channels,
                 view, now, photos, mounted, cameraOpen, capturedImage, streamRef,
                 acquiring, leaked, response, profiles, pending, factory_inventory,
                 orders, purchase_orders, wastage, clock_logs, reports, nextId,
                 items, currentOrder, selectedOrder, editItems, writes, last>>

NextRace ==
  \/ \E w \in Writers, q \in 1..MaxQty : SaleRead(w, q)
  \/ \E w \in Writers : SaleWrite(w)
  \/ \E w \in Writers, n \in RaceSendQuantities : SendRead(w, n)
  \/ \E w \in Writers : SendWrite(w)

SpecRace == InitRace /\ [][NextRace]_vars

\* what a writer means to add to the stock
Delta(wr) == IF wr.kind = "sale" THEN 0 - wr.qty ELSE wr.qty

BothDone == \A w \in Writers : writers[w].pc = "done"
\* both writers read the same stock: neither had written when the other read
ReadTogether == writers["w1"].read = writers["w2"].read
SerialResult == writers["w1"].read + Delta(writers["w1"]) + Delta(writers["w2"])

\* C20: when two writers (two sales, or a send and a sale) have both read
\* the row's stock s before either wrote, the stock after both writes is s
\* changed by one writer's quantity only, which differs from the serial
\* result: the other writer's update is lost.  When one writer read after
\* the other wrote, the stock is the serial result.
C20_LostUpdate ==
  BothDone =>
    IF ReadTogether
    THEN /\ \E w \in Writers : RaceRow.stock = writers[w].read + Delta(writers[w])
         /\ RaceRow.stock # SerialResult
    ELSE \E a, b \in Writers :
           /\ a # b
           /\ writers[b].read = writers[a].read + Delta(writers[a])
           /\ RaceRow.stock = writers[a].read + Delta(writers[a]) + Delta(writers[b])

\* a send of 5 and a sale of 2 both read stock 11; the sale was written
\* first and the send's write put 16 where the serial result is 14
C20_Witness ==
  /\ BothDone
  /\ ReadTogether
  /\ \E a, b \in Writers :
       /\ writers[a].kind = "send" /\ writers[a].qty = 5
       /\ writers[b].kind = "sale" /\ writers[b].qty = 2
       /\ writers[a].read = 11
       /\ RaceRow.stock = 16
  /\ SerialResult = 14

\* two sales of 1 and 2 both read stock 2; the stock ends at 1 or 0 where
\* the serial result is -1
C20_WitnessTwoSales ==
  /\ BothDone
  /\ ReadTogether
  /\ \A w \in Writers : writers[w].kind = "sale" /\ writers[w].read = 2
  /\ writers["w1"].qty # writers["w2"].qty
  /\ RaceRow.stock \in {0, 1}

\* ------------------------------------------ the sale with failing writes
\* stockResults: every cart line comes back from its update with its
\* computed newStock, whether or not the update returned an error
stockResultsOfApplied(cart, failed) ==
  SelectSeq(cart, LAMBDA l : \A i \in failed : cart[i] # l)
stockResults(cart, failed) == cart

\* the parallel stock updates when the updates of the lines in failed
\* (indices of the cart) return an error
SaleStockUpdatesWith(k, cart, rows, failed) ==
  {IF \E i \in 1..Len(cart) \ failed :
        cart[i].id = r.id /\ Allowed("kiosk_inventory", "UPDATE", k, r.kiosk_id)
   THEN LET i == CHOOSE j \in 1..Len(cart) \ failed : cart[j].id = r.id
        IN update_updated_at_column(
             [r EXCEPT !.stock = SaleNewStock(cart[i]),
                       !.status = SaleStatus(SaleNewStock(cart[i]))])
   ELSE r : r \in rows}

\* handlePlaceOrder when the backend fails: orderError is the outcome of
\* the order insert, failed the lines whose stock update returns an error.
\* An order error ends the handler after the toast; a stock error is only
\* logged.
handlePlaceOrderWith(k, orderError, failed) ==
  /\ k \in Kiosks
  /\ currentOrder[k] # <<>>
  /\ failed \subseteq 1..Len(currentOrder[k])
  /\ writes < MaxSaleAttempts
  /\ writes' = writes + 1
  /\ Allowed("orders", "INSERT", k, k)
  /\ Allowed("purchase_orders", "INSERT", k, k)
  /\ IF orderError
     THEN /\ failed = {}
          /\ UNCHANGED <<orders, kiosk_inventory, purchase_orders, nextId,
                         currentOrder, items>>
     ELSE /\ orders' = orders \cup {[id |-> nextId.orders, kiosk_id |-> k,
                                     items |-> orderItems(currentOrder[k]),
                                     total |-> getTotalPrice(currentOrder[k])]}
          /\ kiosk_inventory' =
               SaleStockUpdatesWith(k, currentOrder[k], kiosk_inventory, failed)
          /\ purchase_orders' = purchase_orders \cup
               SalePurchaseOrders(k, stockResults(currentOrder[k], failed),
                                  nextId.purchase_orders)
          /\ nextId' = [nextId EXCEPT
                          !.orders = @ + 1,
                          !.purchase_orders =
                             @ + Len(LowLines(stockResults(currentOrder[k], failed)))]
          /\ currentOrder' = [currentOrder EXCEPT ![k] = <<>>]
          /\ items' = [items EXCEPT ![k] = fetchItems(k, kiosk_inventory')]
  /\ last' = Last(IF orderError THEN "sale_order_error" ELSE "sale_with_errors",
                  k, NoItem, Cardinality(failed), ~orderError)
  /\ UNCHANGED <<uiVars, response, profiles, pending, factory_inventory, wastage,
                 clock_logs, reports, selectedOrder, editItems>>

\* the kiosk of InitCart fills its cart and places orders while the
\* backend may fail
NextSaleErrors ==
  \/ \E k \in Users : AddFromList(k)
  \/ \E k \in Users : AddFromCart(k)
  \/ \E k \in Users, orderError \in BOOLEAN :
        \E failed \in SUBSET (1..Len(currentOrder[k])) :
           handlePlaceOrderWith(k, orderError, failed)

SpecSaleErrors == InitCart /\ [][NextSaleErrors]_vars

\* the stored row of a cart line
RowOfLine(rows, line) == CHOOSE r \in rows : r.id = line.id

\* C21: a failed order insert changes no kiosk stock and creates no purchase
\* order; after a successful order insert the order row is there, every
\* line whose stock update succeeded has its row at the computed newStock,
\* every line whose update failed has its row untouched, and each line
\* whose computed newStock is below 10, the failed ones included, has a new
\* purchase order for 50 - newStock.
C21_PartialFailure ==
  [][\A k \in Users, orderError \in BOOLEAN :
       \A failed \in SUBSET (1..Len(currentOrder[k])) :
         handlePlaceOrderWith(k, orderError, failed) =>
           LET cart == currentOrder[k]
           IN IF orderError
              THEN /\ kiosk_inventory' = kiosk_inventory
                   /\ purchase_orders' = purchase_orders
                   /\ orders' = orders
              ELSE /\ \E o \in orders' \ orders :
                         o.kiosk_id = k /\ o.items = orderItems(cart)
                   /\ orders \subseteq orders'
                   /\ \A i \in 1..Len(cart) :
                        /\ i \in failed =>
                             RowOfLine(kiosk_inventory', cart[i]) =
                               RowOfLine(kiosk_inventory, cart[i])
                        /\ i \notin failed =>
                             RowOfLine(kiosk_inventory', cart[i]).stock =
                               SaleNewStock(cart[i])
                        /\ SaleNewStock(cart[i]) < ReorderLevel =>
                             \E po \in purchase_orders' \ purchase_orders :
                                /\ po.kiosk_id = k
                                /\ po.items[1].name = cart[i].item_name
                                /\ po.items[1].quantity =
                                     TargetStock - SaleNewStock(cart[i])
                                /\ po.status = "Preparing"]_vars

\* an order of two lines was placed, the stock update of one line failed,
\* and a purchase order exists for the item whose row kept its stock
C21_Witness ==
  /\ last.op = "sale_with_errors"
  /\ last.qty = 1
  /\ \E o \in orders : Len(o.items) = 2
  /\ \E r \in kiosk_inventory :
       /\ r.stock = 2 /\ r.updated_at = 0
       /\ \E po \in purchase_orders : po.items[1].name = r.item_name
  /\ \E r \in kiosk_inventory : r.stock < 2

\* --------------------------------------- repeated purchase-order edits
\* kiosk k1 holds a row of Pani Puri; two purchase orders are open, one
\* raised by a sale and one to which the manager has added a second item
InitEdit ==
  /\ profiles = [u \in Users |-> IF u = "m" THEN "manager"
                                ELSE IF u = "k1" THEN "kiosk" ELSE NoProfile]
  /\ pending = {}
  /\ factory_inventory = [e \in FactoryIds |->
        IF e = 1 THEN [name |-> "Pani Puri", price |-> 40, stock |-> UnlimitedStock]
        ELSE [name |-> "Gulab Jamun", price |-> 120, stock |-> UnlimitedStock]]
  /\ kiosk_inventory = {[id |-> 1, kiosk_id |-> "k1", item_name |-> "Pani Puri",
                          stock |-> 2, price |-> 40,
                          status |-> SaleStatus(2), updated_at |-> 0]}
  /\ orders = {}
  /\ purchase_orders =
       {[id |-> 1, kiosk_id |-> "k1",
         items |-> <<[name |-> "Pani Puri", quantity |-> TargetStock - 2]>>,
         status |-> "Preparing"],
        [id |-> 2, kiosk_id |-> "k1",
         items |-> <<[name |-> "Pani Puri", quantity |-> 3],
                     [name |-> "Gulab Jamun", quantity |-> 4]>>,
         status |-> "Preparing"]}
  /\ wastage = {}
  /\ clock_logs = {}
  /\ reports = {}
  /\ nextId = [kiosk_inventory |-> 2, orders |-> 1, purchase_orders |-> 3,
               wastage |-> 1, clock_logs |-> 1, reports |-> 1]
  /\ items = [u \in Users |-> fetchItems(u, kiosk_inventory)]
  /\ currentOrder = [u \in Users |-> <<>>]
  /\ selectedOrder = NoOrder
  /\ editItems = <<>>
  /\ writes = 0
  /\ last = Last("init", "", NoItem, 0, TRUE)
  /\ response = {}
  /\ now = 0
  /\ leaked = 0
  /\ acquiring = <<>>
  /\ streamRef = FALSE
  /\ capturedImage = NoTime
  /\ cameraOpen = NoType
  /\ mounted = TRUE
  /\ photos = {}
  /\ view = [u \in Users |-> SignedOut]
  /\ writers = [w \in Writers |-> Idle]
  /\ delivered = 0
  /\ inflight = {}
  /\ instances = [v \in Views |-> 0]
  /\ channels = [v \in Views |-> 0]

NextEdit ==
  \/ \E mgr \in Users : \E po \in purchase_orders : handleEditClick(mgr, po)
  \/ \E i \in 1..Len(editItems) : \E q \in EditQuantities : handleItemChangeQuantity(i, q)
  \/ \E mgr \in Users : handleSaveEdit(mgr)
  \/ \E mgr \in Users : \E po \in purchase_orders : \E st \in Statuses :
        handleStatusChange(mgr, po, st)

SpecEdit == InitEdit /\ [][NextEdit]_vars

\* the stock a kiosk holds of an item, 0 when it has no row for it
KioskStockOf(rows, k, name) ==
  IF \E r \in rows : r.kiosk_id = k /\ r.item_name = name
  THEN (CHOOSE r \in rows : r.kiosk_id = k /\ r.item_name = name).stock
  ELSE 0

\* the quantity an item list holds for a name
ListedQuantity(its, name) ==
  SumSeq([i \in 1..Len(its) |-> IF its[i].name = name THEN its[i].quantity ELSE 0])

ItemNames == {"Pani Puri", "Gulab Jamun"}

\* C22: every save of a purchase-order edit raises the kiosk's stock of each
\* listed item by the listed quantity, on top of what earlier saves of the
\* same order added and whatever the order's status.
C22_SaveAddsAgain ==
  [][\A mgr \in Users :
       handleSaveEdit(mgr) =>
         \A name \in ItemNames :
           KioskStockOf(kiosk_inventory', selectedOrder.kiosk_id, name) =
             KioskStockOf(kiosk_inventory, selectedOrder.kiosk_id, name)
               + ListedQuantity(editItems, name)]_vars

\* order 2 (3 Pani Puri, 4 Gulab Jamun), unchanged and delivered, has been
\* saved twice: the kiosk holds 2 + 2 * 3 and 2 * 4
C22_Witness ==
  /\ last.op = "save_edit"
  /\ \E po \in purchase_orders :
       /\ po.id = 2 /\ po.status = "Delivered"
       /\ po.items = <<[name |-> "Pani Puri", quantity |-> 3],
                       [name |-> "Gulab Jamun", quantity |-> 4]>>
  /\ \E po \in purchase_orders :
       po.id = 1 /\ po.items = <<[name |-> "Pani Puri", quantity |-> TargetStock - 2]>>
  /\ KioskStockOf(kiosk_inventory, "k1", "Pani Puri") = 2 + 2 * 3
  /\ KioskStockOf(kiosk_inventory, "k1", "Gulab Jamun") = 2 * 4

\* C23: recording order-linked wastage adds one wastage row and writes the
\* stock of the kiosk's row for the chosen item, and nothing else: every
\* order keeps its total and line items, no purchase order and no other
\* kiosk row changes; the quantity is taken as entered, whatever the order
\* sold and whatever the stock is, and the stock is floored at 0.
C23_OrderWastageFrame ==
  [][\A k \in Users : \A o \in orders : \A w \in WastageQuantities :
       \A i \in 1..Len(o.items) :
         WastageSubmit(k, o, o.items[i].name, w) =>
           /\ orders' = orders
           /\ purchase_orders' = purchase_orders
           /\ factory_inventory' = factory_inventory
           /\ wastage' = wastage \cup
                {WastageRow(nextId.wastage, k, o.id, o.items[i].name, w)}
           /\ Cardinality(kiosk_inventory') = Cardinality(kiosk_inventory)
           /\ \A r \in kiosk_inventory :
                IF r.kiosk_id = k /\ r.item_name = o.items[i].name /\ last'.ok
                THEN \E r2 \in kiosk_inventory' :
                       /\ r2.id = r.id
                       /\ r2.stock = Max(0, r.stock - w)
                       /\ r2 = [r EXCEPT !.stock = r2.stock,
                                         !.updated_at = r2.updated_at]
                ELSE r \in kiosk_inventory']_vars

\* 15 units were recorded as wastage against an order that sold at most
\* MaxQty of the item, when the row (sent 11, then sold from) held fewer
\* than 15: the stock is 0 and the order is as it was placed
C23_Witness ==
  /\ last.op = "order_wastage" /\ last.ok /\ last.qty = 15
  /\ \E wr \in wastage : \E o \in orders : \E r \in kiosk_inventory :
       /\ wr.order_id = o.id /\ wr.quantity = 15
       /\ \E i \in 1..Len(o.items) :
            o.items[i].name = wr.item_name /\ o.items[i].quantity < wr.quantity
       /\ o.total = SumSeq([i \in 1..Len(o.items) |->
                              o.items[i].price * o.items[i].quantity])
       /\ r.kiosk_id = wr.kiosk_id /\ r.item_name = wr.item_name
       /\ r.stock = 0 /\ r.updated_at = 2

\* the quantity of an item that a set of purchase orders requests
RECURSIVE RequestedQuantity(_, _)
RequestedQuantity(pos, name) ==
  IF pos = {} THEN 0
  ELSE LET po == CHOOSE p \in pos : TRUE
       IN ListedQuantity(po.items, name) + RequestedQuantity(pos \ {po}, name)

Preparing(k) == {po \in purchase_orders : po.kiosk_id = k /\ po.status = "Preparing"}

\* C24: for every kiosk and item, the stock of the item plus the quantities
\* that the kiosk's purchase orders in status "Preparing" request for it
\* stays within the target ceiling of 50 units.
C24_WithinTargetCeiling ==
  \A k \in Users : \A name \in ItemNames :
     KioskStockOf(kiosk_inventory, k, name) + RequestedQuantity(Preparing(k), name)
       <= TargetStock

\* C25: a status change of a purchase order, to "Delivered" as to any other
\* value, writes the status of that one order and nothing else: no kiosk or
\* factory stock, no item list of any purchase order, and no other order's
\* status changes.
C25_StatusChangeFrame ==
  [][\A mgr \in Users : \A po \in purchase_orders : \A st \in Statuses :
       handleStatusChange(mgr, po, st) =>
         /\ kiosk_inventory' = kiosk_inventory
         /\ factory_inventory' = factory_inventory
         /\ orders' = orders
         /\ purchase_orders' =
              (purchase_orders \ {po}) \cup {[po EXCEPT !.status = st]}]_vars

\* a purchase order raised by a sale has been set to "Delivered" and the
\* kiosk's stock of the item is still what the sale left
C25_Witness ==
  /\ last.op = "status"
  /\ \E po \in purchase_orders :
       /\ po.status = "Delivered"
       /\ po.id = last.qty
       /\ KioskStockOf(kiosk_inventory, po.kiosk_id, po.items[1].name) =
            TargetStock - po.items[1].quantity
       /\ \E r \in kiosk_inventory :
            r.kiosk_id = po.kiosk_id /\ r.item_name = po.items[1].name

\* ------------------------------- the finite-stock send with failing writes
\* handleSendItem of the finite-stock component when the backend fails:
\* factoryError is the outcome of the factory update, kioskError that of
\* the kiosk row's update or insert.  Each error ends the handler after
\* its toast; what was written before it stays written.
handleSendItemFiniteWith(mgr, e, k, quantity, factoryError, kioskError) ==
  /\ writes < MaxWrites
  /\ mgr \in Managers
  /\ k \in fetchKiosks(mgr)
  /\ IF quantity > factory_inventory[e].stock
     THEN /\ ~factoryError /\ ~kioskError
          /\ last' = Last("send_finite_refused", k, factory_inventory[e].name, quantity, FALSE)
          /\ UNCHANGED <<factory_inventory, kiosk_inventory, nextId, writes>>
     ELSE /\ writes' = writes + 1
          /\ FactoryWriteAllowed(mgr)
          /\ Allowed("kiosk_inventory", "SELECT", mgr, k)
          /\ Allowed("kiosk_inventory", "UPDATE", mgr, k)
          /\ Allowed("kiosk_inventory", "INSERT", mgr, k)
          /\ IF factoryError
             THEN /\ ~kioskError
                  /\ UNCHANGED <<factory_inventory, kiosk_inventory, nextId>>
             ELSE /\ factory_inventory' =
                       [factory_inventory EXCEPT ![e].stock = @ - quantity]
                  /\ IF kioskError
                     THEN UNCHANGED <<kiosk_inventory, nextId>>
                     ELSE LET res == SendUpsert(kiosk_inventory, nextId.kiosk_inventory, k,
                                                factory_inventory[e].name,
                                                factory_inventory[e].price, quantity)
                          IN /\ kiosk_inventory' = res.rows
                             /\ nextId' = [nextId EXCEPT !.kiosk_inventory = res.nid]
          /\ last' = Last("send_finite_attempt", k, factory_inventory[e].name, quantity,
                          ~factoryError /\ ~kioskError)
  /\ UNCHANGED <<uiVars, response, profiles, pending, orders, purchase_orders, wastage,
                 clock_logs, reports, items, currentOrder, selectedOrder, editItems>>

NextFiniteErrors ==
  \E mgr \in Users : \E e \in FactoryIds : \E k \in Users :
    \E q \in FiniteSendQuantities : \E factoryError \in BOOLEAN, kioskError \in BOOLEAN :
       handleSendItemFiniteWith(mgr, e, k, q, factoryError, kioskError)

SpecFiniteErrors == InitFinite /\ [][NextFiniteErrors]_vars

\* C26: a send attempt under the finite-stock policy, whether it succeeds
\* or fails at any step, leaves the sum of the factory entry's stock and the
\* destination kiosk's stock of the item as it was.
C26_SendConservesUnits ==
  [][\A mgr \in Users : \A e \in FactoryIds : \A k \in Users :
       \A q \in FiniteSendQuantities : \A factoryError \in BOOLEAN, kioskError \in BOOLEAN :
         handleSendItemFiniteWith(mgr, e, k, q, factoryError, kioskError) =>
           factory_inventory'[e].stock
             + KioskStockOf(kiosk_inventory', k, factory_inventory[e].name)
           = factory_inventory[e].stock
             + KioskStockOf(kiosk_inventory, k, factory_inventory[e].name)]_vars

\* --------------------------------------------------- the change feed
\* The item view of kiosk k1 (KioskSales; LiveInventory has the same code)
\* is mounted with its channel open and its first fetch done.  The store
\* is written from another session; a notification is delivered for each
\* write and its callback calls fetchItems(); the responses come back in
\* any order and each one replaces the list.
InitFeed ==
  /\ profiles = [u \in Users |-> IF u = "m" THEN "manager"
                                ELSE IF u = "k1" THEN "kiosk" ELSE NoProfile]
  /\ pending = {}
  /\ factory_inventory = [e \in FactoryIds |->
        IF e = 1 THEN [name |-> "Pani Puri", price |-> 40, stock |-> UnlimitedStock]
        ELSE [name |-> "Gulab Jamun", price |-> 120, stock |-> UnlimitedStock]]
  /\ kiosk_inventory = {[id |-> e, kiosk_id |-> kioskId, item_name |-> factory_inventory[e].name,
                          stock |-> 2, price |-> factory_inventory[e].price,
                          status |-> SendStatus(2), updated_at |-> 0] : e \in FactoryIds}
  /\ orders = {}
  /\ purchase_orders = {}
  /\ wastage = {}
  /\ clock_logs = {}
  /\ reports = {}
  /\ nextId = [kiosk_inventory |-> 3, orders |-> 1, purchase_orders |-> 1,
               wastage |-> 1, clock_logs |-> 1, reports |-> 1]
  /\ items = [u \in Users |-> fetchItems(u, kiosk_inventory)]
  /\ currentOrder = [u \in Users |-> <<>>]
  /\ selectedOrder = NoOrder
  /\ editItems = <<>>
  /\ writes = 0
  /\ last = Last("init", "", NoItem, 0, TRUE)
  /\ response = {}
  /\ now = 0
  /\ leaked = 0
  /\ acquiring = <<>>
  /\ streamRef = FALSE
  /\ capturedImage = NoTime
  /\ cameraOpen = NoType
  /\ mounted = TRUE
  /\ photos = {}
  /\ view = [u \in Users |-> SignedOut]
  /\ writers = [w \in Writers |-> Idle]
  /\ delivered = 0
  /\ inflight = {}
  /\ instances = [v \in Views |-> IF v = "KioskSales" THEN 1 ELSE 0]
  /\ channels = [v \in Views |-> IF v = "KioskSales" THEN 1 ELSE 0]

feedFrame ==
  UNCHANGED <<profiles, pending, factory_inventory, kiosk_inventory, orders,
              purchase_orders, wastage, clock_logs, reports, nextId,
              currentOrder, selectedOrder, editItems, writes, last, response,
              now, photos, mounted, cameraOpen, capturedImage, streamRef,
              acquiring, leaked, view, writers, instances, channels>>

\* the channel's callback () => fetchItems(): a notification is delivered
\* and the request it sends reads the rows as they are now
Notify ==
  /\ channels["KioskSales"] > 0
  /\ delivered < writes
  /\ delivered' = delivered + 1
  /\ inflight' = inflight \cup
        {[request |-> delivered + 1, list |-> fetchItems(kioskId, kiosk_inventory)]}
  /\ UNCHANGED items
  /\ feedFrame

\* a response comes back: setItems([...mergedItems, ...extraItems]), with
\* no regard to which request it answers
FetchArrives(f) ==
  /\ f \in inflight
  /\ inflight' = inflight \ {f}
  /\ items' = [items EXCEPT ![kioskId] = f.list]
  /\ UNCHANGED delivered
  /\ feedFrame

NextFeed ==
  \/ \E r \in kiosk_inventory : \E w \in CartWastageQuantities :
        ItemWastageSubmit(kioskId, r.item_name, r.stock, w)
  \/ Notify
  \/ \E f \in inflight : FetchArrives(f)

SpecFeed == InitFeed /\ [][NextFeed]_vars

\* C27: once every change notification has been delivered and every fetch
\* has come back, the view's item list is the list of the store's current
\* rows, in whatever order the responses arrived.
C27_ListConverges ==
  (delivered = writes /\ inflight = {}) =>
     items[kioskId] = fetchItems(kioskId, kiosk_inventory)

\* C28: every kiosk_inventory row of a kiosk is in the item list that
\* fetchItems builds from the store's rows exactly once, in the slot of the
\* predefined item it matches or among the extra items, also when rows
\* have names that differ only by letter case.
C28_EveryRowListedOnce ==
  \A k \in Kiosks : \A r \in kiosk_inventory :
     r.kiosk_id = k =>
       LET list == fetchItems(k, kiosk_inventory)
       IN Cardinality({j \in 1..Len(list) : list[j].id = r.id}) = 1

\* ------------------------------------------- mounting and unmounting
channelFrame ==
  UNCHANGED <<profiles, pending, factory_inventory, kiosk_inventory, orders,
              purchase_orders, wastage, clock_logs, reports, nextId, items,
              currentOrder, selectedOrder, editItems, writes, last, response,
              now, photos, mounted, cameraOpen, capturedImage, streamRef,
              acquiring, leaked, view, writers, delivered, inflight>>

\* a view is mounted: its effect (for KioskDashboard the checkAuth the
\* effect starts, for a kiosk account) calls setupRealtimeSubscription().
\* supabase.channel(name) with the name of a channel that is still live
\* gives, depending on the client library's version, a new channel or the
\* live one again.
mountView(v, reuse) ==
  /\ instances[v] = 0
  /\ instances' = [instances EXCEPT ![v] = 1]
  /\ IF reuse
     THEN channels[v] > 0 /\ UNCHANGED channels
     ELSE /\ channels[v] < MaxChannels
          /\ channels' = [channels EXCEPT ![v] = @ + 1]
  /\ channelFrame

\* what React runs when the view is torn down: the effect callback returned
\* nothing, the function setupRealtimeSubscription() returned was dropped
cleanup(n) == n

unmountView(v) ==
  /\ instances[v] = 1
  /\ instances' = [instances EXCEPT ![v] = 0]
  /\ channels' = [channels EXCEPT ![v] = cleanup(@)]
  /\ channelFrame

NextChannels ==
  \/ \E v \in Views, reuse \in BOOLEAN : mountView(v, reuse)
  \/ \E v \in Views : unmountView(v)

SpecChannels == Init /\ [][NextChannels]_vars

\* C29: for any sequence of mounts and unmounts, a view has as many live
\* change-feed channels as mounted instances; after it is torn down it has
\* none.
C29_ChannelsMatchInstances ==
  \A v \in Views : channels[v] = instances[v]

\* ------------------------------------------------ attendance: Retake
\* the Retake button: setCapturedImage(null), and nothing else
retake ==
  /\ mounted
  /\ cameraOpen # NoType
  /\ capturedImage # NoTime
  /\ capturedImage' = NoTime
  /\ UNCHANGED <<delivered, inflight, instances, channels, view, writers, now, photos,
                 mounted, cameraOpen, streamRef, acquiring, leaked,
                 profiles, pending, factory_inventory, kiosk_inventory, orders,
                 purchase_orders, wastage, clock_logs, reports, nextId, items,
                 currentOrder, selectedOrder, editItems, writes, last, response>>

NextRetake ==
  \/ \E type \in ClockTypes : handleClock(type)
  \/ \E type \in ClockTypes : openCamera(type)
  \/ \E i \in 1..Len(acquiring) : getUserMediaResolved(i)
  \/ \E i \in 1..Len(acquiring) : getUserMediaRejected(i)
  \/ capturePhoto
  \/ retake
  \/ closeCamera
  \/ \E uploadOk \in BOOLEAN : submitImage(uploadOk)

SpecRetake == Init /\ [][NextRetake]_vars

\* C30: pressing Retake after a capture leaves the dialog with a live
\* camera stream, so that a new photo can be captured without closing and
\* reopening the dialog.
C30_RetakeRestoresStream ==
  [][retake => streamRef']_vars

====
